---- MODULE Spec2Model ----
(***************************************************************************)
(* State-machine model of xeometry.Viewer (src/js/viewer.js): the entity   *)
(* registry (models, objects, types, lights, clips, annotations), the      *)
(* ID resolution of the ID-keyed operations and the lazily built           *)
(* transform stacks, the camera pose, and bookmarks: getBookmark and the   *)
(* restore setBookmark runs across the loads of the document's models.     *)
(*                                                                         *)
(* JavaScript objects used as maps are sequences of <<key, value>> pairs   *)
(* in insertion order, which is the order Object.keys() and for..in        *)
(* enumerate them in.  Each handler of the viewer is an operator from a    *)
(* viewer state record to the viewer state record after the call; the      *)
(* actions apply one handler to the current state.                         *)
(***************************************************************************)
EXTENDS Integers, Sequences, FiniteSets, TLC

VARIABLES
    cfgLoadModel,     \* TRUE when the viewer was configured with cfg.loadModel
    cfgLoadedModel,   \* TRUE when the viewer was configured with cfg.loadedModel
    cfgUnloadedModel, \* TRUE when the viewer was configured with cfg.unloadedModel
    models,           \* models: id -> model instance
    modelSrcs,        \* modelSrcs: id -> src
    loading,          \* model instances whose load has been issued and not completed
    staleDone,        \* number of loads completed by instances that had been destroyed
    objects,          \* objects: object id -> entity instance ("live" or "stale", see Instances)
    objectModels,     \* objectModels: object id -> model instance ("live" or "stale")
    entState,         \* the fields of each live entity instance
    types,            \* types: type tag -> bucket of object ids
    scales,           \* scales: id -> xyz of the xeogl.Scale
    rotations,        \* rotations: id -> xyzw of the xeogl.Quaternion
    translations,     \* translations: id -> xyz of the xeogl.Translate
    eulerAngles,      \* eulerAngles: id -> angles given to setRotate
    transformable,    \* transformable: id -> true
    xfParent,         \* per built object stack: the model transform it is parented on
    components,       \* ids in scene.components
    lights,           \* lights: id -> light
    clips,            \* clips: id -> clip
    clipHelpers,      \* clipHelpers: id -> helper
    annotations,      \* annotations: id -> annotation
    objectAnnotations,\* objectAnnotations: object id -> annotation ids
    clipsDirty,
    lightsDirty,
    ticking,          \* TRUE while onTick is subscribed to the "tick" event of the scene
    sceneClips,       \* scene.clips.clips: the ids of the clips the engine applies
    sceneLights,      \* scene.lights.lights: the ids of the lights the engine applies
    eventSubs,        \* eventSubs: event -> the callbacks subscribed with on
    continuations,    \* the functions given to cfg.loadedModel and not called so far
    view,             \* camera.view: eye, look and up
    restore,          \* the restore setBookmark has started: its document and the load it waits for
    last              \* the handler the last step ran, what it returned, whether it logged or threw

vars == <<cfgLoadModel, cfgLoadedModel, cfgUnloadedModel, models, modelSrcs, loading, staleDone, objects, objectModels, entState,
          types, scales, rotations, translations, eulerAngles, transformable, xfParent,
          components, lights, clips, clipHelpers, annotations, objectAnnotations,
          clipsDirty, lightsDirty, ticking, sceneClips, sceneLights, eventSubs, continuations,
          view, restore, last>>

\* ------------------------------------------------------------------------
\* Bounds of the model
\* ------------------------------------------------------------------------

\* completions of loads whose model instance had been destroyed before, in one run
MaxStale == 1
\* longest ID list passed to a batch call
MaxList == 2
\* recursion depth after which a handler call is taken to overflow the stack
MaxDepth == 4
\* the largest coordinate addTranslate builds up
MaxCoord == 2
\* the length of the lists given to the calls that change objects
MaxBatch == 3

\* ------------------------------------------------------------------------
\* The universe of inputs
\* ------------------------------------------------------------------------

\* undefined, where a string, a number, a vector or a configuration object is expected
Undef == "<undefined>"
UndefNum == -1
UndefVec == <<>>
NoCfg == [undefined |-> TRUE]

ModelIds == {"m1", "m2"}
Srcs == {"a", "b", "c"}

\* the entities the glTF at src holds, in file order, with the type their meta carries
SrcNodes(src) ==
    CASE src = "a" -> << [node |-> 1, type |-> Undef], [node |-> 2, type |-> Undef] >>
      [] src = "b" -> << [node |-> 2, type |-> "T"] >>
      [] src = "c" -> << [node |-> 1, type |-> Undef] >>

\* the loadModel calls made: m1 from a or b, m2 from c
LoadInputs == {<<"m1", "a">>, <<"m1", "b">>, <<"m2", "c">>}

\* entity ids are the model id, "#" and the node id
ObjId(m, n) ==
    CASE m = "m1" /\ n = 1 -> "m1#1"
      [] m = "m1" /\ n = 2 -> "m1#2"
      [] m = "m2" /\ n = 1 -> "m2#1"

ObjectIds == {"m1#1", "m1#2", "m2#1"}

ModelOfId(o) == IF o \in {"m1#1", "m1#2"} THEN "m1" ELSE "m2"

\* ------------------------------------------------------------------------
\* JavaScript objects as insertion-ordered maps
\* ------------------------------------------------------------------------

Keys(map) == [i \in 1..Len(map) |-> map[i][1]]
KeySet(map) == {map[i][1] : i \in 1..Len(map)}
Has(map, k) == \E i \in 1..Len(map) : map[i][1] = k
Get(map, k) == map[CHOOSE i \in 1..Len(map) : map[i][1] = k][2]
Put(map, k, v) ==
    IF Has(map, k)
    THEN [i \in 1..Len(map) |-> IF map[i][1] = k THEN <<k, v>> ELSE map[i]]
    ELSE Append(map, <<k, v>>)
Del(map, k) == SelectSeq(map, LAMBDA e : e[1] # k)

\* JavaScript objects that no handler enumerates, as functions on their keys
EmptyF == [k \in {} |-> k]
FHas(map, k) == k \in DOMAIN map
FGet(map, k) == map[k]
FPut(map, k, v) == [x \in (DOMAIN map) \cup {k} |-> IF x = k THEN v ELSE map[x]]
FDel(map, k) == [x \in (DOMAIN map) \ {k} |-> map[x]]

SeqToSet(s) == {s[i] : i \in 1..Len(s)}
Contains(s, x) == \E i \in 1..Len(s) : s[i] = x

\* ------------------------------------------------------------------------
\* Values
\* ------------------------------------------------------------------------

\* xeogl.Scale, xeogl.Translate and xeogl.Quaternion as constructed without values
DefaultScale == <<1, 1, 1>>
DefaultTranslate == <<0, 0, 0>>
DefaultQuat == <<0, 0, 0, 1>>
DefaultAngles == <<0, 0, 0>>

\* colour components are held in tenths: <<10, 10, 10>> is [1, 1, 1]
White == <<10, 10, 10>>

\* opacities are held in hundredths: 100 is the JavaScript number 1.0
OpacityOne == 100

\* an entity as the loader creates it
NewEntity(type) ==
    [type |-> type, visible |-> TRUE, opacity |-> OpacityOne, alphaMode |-> "opaque",
     color |-> White, clippable |-> TRUE, pickable |-> TRUE, outlined |-> FALSE]

\* meta && meta.type ? meta.type : "DEFAULT"
TypeOrDefault(type) == IF type = Undef \/ type = "" THEN "DEFAULT" ELSE type

\* ------------------------------------------------------------------------
\* The viewer state as one record, so that handlers compose
\* ------------------------------------------------------------------------

St ==
    [cfgLoadModel |-> cfgLoadModel, cfgLoadedModel |-> cfgLoadedModel,
     cfgUnloadedModel |-> cfgUnloadedModel, models |-> models, modelSrcs |-> modelSrcs,
     loading |-> loading, staleDone |-> staleDone, objects |-> objects, objectModels |-> objectModels,
     entState |-> entState, types |-> types, scales |-> scales, rotations |-> rotations,
     translations |-> translations, eulerAngles |-> eulerAngles,
     transformable |-> transformable, xfParent |-> xfParent, components |-> components,
     lights |-> lights, clips |-> clips, clipHelpers |-> clipHelpers,
     annotations |-> annotations, objectAnnotations |-> objectAnnotations,
     clipsDirty |-> clipsDirty, lightsDirty |-> lightsDirty, ticking |-> ticking,
     sceneClips |-> sceneClips, sceneLights |-> sceneLights, eventSubs |-> eventSubs,
     view |-> view,
     ret |-> Undef, err |-> FALSE, crash |-> FALSE, calls |-> <<>>]

\* error(msg): console.error, nothing else
error(S) == [S EXCEPT !.err = TRUE]

Return(S, v) == [S EXCEPT !.ret = v]

\* an exception (a TypeError, or the RangeError of unbounded recursion): the call stack
\* unwinds, the writes made so far stay
Throw(S) == [S EXCEPT !.crash = TRUE]

\* what a function of the application finds in the viewer when the viewer calls it: the
\* registries behind getModels, getObjects, getModel and getTypes
Seen(S) ==
    [models |-> Keys(S.models), objects |-> Keys(S.objects),
     objectModels |-> DOMAIN S.objectModels, types |-> S.types]

\* the viewer calls fn(id, src), a function the application gave it; src is Undef for a
\* function called with the ID only
CallOut(S, fn, id, src) ==
    [S EXCEPT !.calls = Append(@, [fn |-> fn, id |-> id, src |-> src, seen |-> Seen(S)])]

\* Instances.  The GLTFModel registered as models[id] is the "live" instance of id.  An
\* instance that destroy removed from models while its load was in flight is "stale":
\* no handler can reach it, but its load may still complete.  The entities of a model
\* instance are live or stale with it.  Stale instances of one id are not told apart.
Live == "live"
Stale == "stale"

\* entity instances still referenced: registered in objects, or held by a live model
LiveEntities(S) ==
    {<<S.objects[i][1], S.objects[i][2]>> : i \in 1..Len(S.objects)}
    \cup UNION {{<<S.models[i][2].entities[j], Live>> :
                    j \in 1..Len(S.models[i][2].entities)} : i \in 1..Len(S.models)}

\* drops the entity instances nothing refers to any more
Collect(S) ==
    [S EXCEPT !.entState = [k \in (DOMAIN S.entState) \cap LiveEntities(S) |-> S.entState[k]]]

\* the entity registered as objects[id]
Entity(S, id) == S.entState[<<id, Get(S.objects, id)>>]

SetEntity(S, id, field, v) ==
    [S EXCEPT !.entState[<<id, Get(S.objects, id)>>][field] = v]

\* ------------------------------------------------------------------------
\* Queries
\* ------------------------------------------------------------------------

getModels(S) == Keys(S.models)
getLights(S) == Keys(S.lights)
getClips(S) == Keys(S.clips)
getAnnotations(S) == Keys(S.annotations)
getTypes(S) == DOMAIN S.types

\* getObjects(id) with a model branch that returns every registered object
getObjectsEveryObject(S, id) ==
    IF id = Undef THEN Keys(S.objects)
    ELSE IF Has(S.objects, id) THEN <<id>>
    ELSE IF FHas(S.types, id) THEN FGet(S.types, id)
    ELSE IF ~Has(S.models, id) THEN <<>>
    ELSE Keys(S.objects)

\* getObjects(id) for undefined or a string: the IDs returned
getObjects(S, id) ==
    IF id = Undef THEN Keys(S.objects)
    ELSE IF Has(S.objects, id) THEN <<id>>
    ELSE IF FHas(S.types, id) THEN FGet(S.types, id)
    ELSE IF ~Has(S.models, id) THEN <<>>
    ELSE Get(S.models, id).entities

\* whether getObjects(id) logs "Model not found"
getObjectsErr(S, id) ==
    id # Undef /\ ~Has(S.objects, id) /\ ~FHas(S.types, id) /\ ~Has(S.models, id)

\* the inner loop of the array branch without the test for IDs already got
pushAll(result, buf, j) == result \o SubSeq(buf, j, Len(buf))

RECURSIVE pushNew(_, _, _)
\* the inner loop of the array branch: pushes buf[j..] onto result, skipping the IDs already got
pushNew(result, buf, j) ==
    IF j > Len(buf) THEN result
    ELSE pushNew(IF Contains(result, buf[j]) THEN result ELSE Append(result, buf[j]), buf, j + 1)

RECURSIVE getObjectsFrom(_, _, _, _)
\* getObjects(list), the array branch from index i on
getObjectsFrom(S, ids, i, result) ==
    IF i > Len(ids) THEN result
    ELSE getObjectsFrom(S, ids, i + 1, pushNew(result, getObjects(S, ids[i]), 1))

getObjectsList(S, ids) == getObjectsFrom(S, ids, 1, <<>>)

getType(S, id) ==
    IF Has(S.objects, id) THEN TypeOrDefault(Entity(S, id).type) ELSE Undef

\* getSrc(id); null is Undef
getSrc(S, id) ==
    IF ~FHas(S.modelSrcs, id) THEN Return(error(S), Undef)
    ELSE Return(S, FGet(S.modelSrcs, id))

\* getModel(id): the id of objectModels[id]
getModel(S, id) ==
    IF ~Has(S.objects, id) \/ ~FHas(S.objectModels, id) THEN Undef ELSE ModelOfId(id)

\* ------------------------------------------------------------------------
\* Visibility, opacity, colour, clippability, pickability, outline
\* ------------------------------------------------------------------------

RECURSIVE setVisibleStops(_, _, _, _)
RECURSIVE setVisible(_, _, _, _)
RECURSIVE setVisibleEach(_, _, _, _, _)

\* setVisible(ids, visible) in which an ID that resolves to nothing throws
setVisibleStops(S, id, visible, d) ==
    IF S.crash THEN S
    ELSE IF d = 0 THEN Throw(S)
    ELSE IF id = Undef THEN
        LET s1 == setVisibleEach(S, getObjects(S, Undef), 1, visible, d - 1)
            s2 == setVisibleEach(s1, getLights(s1), 1, visible, d - 1)
        IN setVisibleEach(s2, getClips(s2), 1, visible, d - 1)
    ELSE IF Has(S.objects, id) THEN SetEntity(S, id, "visible", visible)
    ELSE IF Has(S.lights, id) THEN S
    ELSE IF FHas(S.clipHelpers, id) THEN
        [S EXCEPT !.clipHelpers = FPut(@, id, [visible |-> visible])]
    ELSE IF ~Has(S.models, id) THEN
        IF FHas(S.types, id) THEN
            IF Len(FGet(S.types, id)) = 0 THEN S
            ELSE setVisibleEach(S, FGet(S.types, id), 1, visible, d - 1)
        ELSE Throw(error(S))
    ELSE LET s1 == IF getObjectsErr(S, id) THEN error(S) ELSE S
         IN setVisibleEach(s1, getObjects(S, id), 1, visible, d - 1)

\* setVisible(ids, visible) for undefined or a string; d is the stack depth left
setVisible(S, id, visible, d) ==
    IF S.crash THEN S
    ELSE IF d = 0 THEN Throw(S)
    ELSE IF id = Undef THEN
        LET s1 == setVisibleEach(S, getObjects(S, Undef), 1, visible, d - 1)
            s2 == setVisibleEach(s1, getLights(s1), 1, visible, d - 1)
        IN setVisibleEach(s2, getClips(s2), 1, visible, d - 1)
    ELSE IF Has(S.objects, id) THEN SetEntity(S, id, "visible", visible)
    ELSE IF Has(S.lights, id) THEN S   \* lightHelpers never holds an entry
    ELSE IF FHas(S.clipHelpers, id) THEN
        [S EXCEPT !.clipHelpers = FPut(@, id, [visible |-> visible])]
    ELSE IF ~Has(S.models, id) THEN
        IF FHas(S.types, id) THEN
            IF Len(FGet(S.types, id)) = 0 THEN S
            ELSE setVisibleEach(S, FGet(S.types, id), 1, visible, d - 1)
        ELSE error(S)
    ELSE LET s1 == IF getObjectsErr(S, id) THEN error(S) ELSE S
         IN setVisibleEach(s1, getObjects(S, id), 1, visible, d - 1)

\* the array loop of setVisible, from index i on
setVisibleEach(S, ids, i, visible, d) ==
    IF i > Len(ids) \/ S.crash THEN S
    ELSE setVisibleEach(setVisible(S, ids[i], visible, d), ids, i + 1, visible, d)

show(S, ids) == setVisible(S, ids, TRUE, MaxDepth)
hide(S, ids) == setVisible(S, ids, FALSE, MaxDepth)
showEach(S, ids) == setVisibleEach(S, ids, 1, TRUE, MaxDepth)
\* hide(list) that hides, for each ID of the list, the model the ID is prefixed with
hideModelsOf(S, ids) ==
    setVisibleEach(S, [i \in 1..Len(ids) |-> ModelOfId(ids[i])], 1, FALSE, MaxDepth)
hideEach(S, ids) == setVisibleEach(S, ids, 1, FALSE, MaxDepth)

RECURSIVE setOpacity(_, _, _, _)
RECURSIVE setOpacityEach(_, _, _, _, _)

\* setOpacity(ids, opacity) that takes the objects of a model from the model itself
setOpacityModelFirst(S, id, opacity, d) ==
    LET op == IF opacity = UndefNum THEN OpacityOne ELSE opacity IN
    IF S.crash THEN S
    ELSE IF d = 0 THEN Throw(S)
    ELSE IF id = Undef THEN setOpacityEach(S, getObjects(S, Undef), 1, op, d - 1)
    ELSE IF Has(S.objects, id) THEN
        SetEntity(SetEntity(S, id, "alphaMode", IF op < OpacityOne THEN "blend" ELSE "opaque"),
                  id, "opacity", op)
    ELSE IF ~Has(S.models, id) THEN
        IF FHas(S.types, id) THEN
            IF Len(FGet(S.types, id)) = 0 THEN S
            ELSE setOpacityEach(S, FGet(S.types, id), 1, op, d - 1)
        ELSE error(S)
    ELSE setOpacityEach(S, Get(S.models, id).entities, 1, op, d - 1)

\* setOpacity(ids, opacity) for undefined or a string
setOpacity(S, id, opacity, d) ==
    LET op == IF opacity = UndefNum THEN OpacityOne ELSE opacity IN
    IF S.crash THEN S
    ELSE IF d = 0 THEN Throw(S)
    ELSE IF id = Undef THEN setOpacityEach(S, getObjects(S, Undef), 1, op, d - 1)
    ELSE IF Has(S.objects, id) THEN
        SetEntity(SetEntity(S, id, "alphaMode", IF op < OpacityOne THEN "blend" ELSE "opaque"),
                  id, "opacity", op)
    ELSE IF ~Has(S.models, id) THEN
        IF FHas(S.types, id) THEN
            IF Len(FGet(S.types, id)) = 0 THEN S
            ELSE setOpacityEach(S, FGet(S.types, id), 1, op, d - 1)
        ELSE error(S)
    ELSE LET s1 == IF getObjectsErr(S, id) THEN error(S) ELSE S
         IN setOpacityEach(s1, getObjects(S, id), 1, op, d - 1)

setOpacityEach(S, ids, i, opacity, d) ==
    IF i > Len(ids) \/ S.crash THEN S
    ELSE setOpacityEach(setOpacity(S, ids[i], opacity, d), ids, i + 1, opacity, d)

RECURSIVE setColor(_, _, _, _)
RECURSIVE setColorEach(_, _, _, _, _)

\* setColor(ids, color) for undefined or a string
setColor(S, id, color, d) ==
    LET c == IF color = UndefVec THEN White ELSE color IN
    IF S.crash THEN S
    ELSE IF d = 0 THEN Throw(S)
    ELSE IF id = Undef THEN setColorEach(S, getObjects(S, Undef), 1, c, d - 1)
    ELSE IF Has(S.objects, id) THEN SetEntity(S, id, "color", c)
    ELSE IF Has(S.lights, id) THEN
        [S EXCEPT !.lights = Put(@, id, [Get(S.lights, id) EXCEPT !.color = c])]
    ELSE IF ~Has(S.models, id) THEN
        IF FHas(S.types, id) THEN
            IF Len(FGet(S.types, id)) = 0 THEN S
            ELSE setColorEach(S, FGet(S.types, id), 1, c, d - 1)
        ELSE error(S)
    ELSE LET s1 == IF getObjectsErr(S, id) THEN error(S) ELSE S
         IN setColorEach(s1, getObjects(S, id), 1, c, d - 1)

setColorEach(S, ids, i, color, d) ==
    IF i > Len(ids) \/ S.crash THEN S
    ELSE setColorEach(setColor(S, ids[i], color, d), ids, i + 1, color, d)

RECURSIVE setClippable(_, _, _, _)
RECURSIVE setClippableEach(_, _, _, _, _)

\* setClippable(ids, clippable) for undefined or a string
setClippable(S, id, clippable, d) ==
    IF S.crash THEN S
    ELSE IF d = 0 THEN Throw(S)
    ELSE IF id = Undef THEN setClippableEach(S, getObjects(S, Undef), 1, clippable, d - 1)
    ELSE IF Has(S.objects, id) THEN SetEntity(S, id, "clippable", clippable)
    ELSE IF ~Has(S.models, id) THEN
        IF FHas(S.types, id) THEN
            IF Len(FGet(S.types, id)) = 0 THEN S
            ELSE setClippableEach(S, FGet(S.types, id), 1, clippable, d - 1)
        ELSE error(S)
    ELSE LET s1 == IF getObjectsErr(S, id) THEN error(S) ELSE S
         IN setClippableEach(s1, getObjects(S, id), 1, clippable, d - 1)

setClippableEach(S, ids, i, clippable, d) ==
    IF i > Len(ids) \/ S.crash THEN S
    ELSE setClippableEach(setClippable(S, ids[i], clippable, d), ids, i + 1, clippable, d)

RECURSIVE setPickable(_, _, _, _)
RECURSIVE setPickableEach(_, _, _, _, _)

\* setPickable(ids, pickable) for undefined or a string
setPickable(S, id, pickable, d) ==
    IF S.crash THEN S
    ELSE IF d = 0 THEN Throw(S)
    ELSE IF id = Undef THEN setPickableEach(S, getObjects(S, Undef), 1, pickable, d - 1)
    ELSE IF Has(S.objects, id) THEN SetEntity(S, id, "pickable", pickable)
    ELSE IF ~Has(S.models, id) THEN
        IF FHas(S.types, id) THEN
            IF Len(FGet(S.types, id)) = 0 THEN S
            ELSE setPickableEach(S, FGet(S.types, id), 1, pickable, d - 1)
        ELSE error(S)
    ELSE LET s1 == IF getObjectsErr(S, id) THEN error(S) ELSE S
         IN setPickableEach(s1, getObjects(S, id), 1, pickable, d - 1)

setPickableEach(S, ids, i, pickable, d) ==
    IF i > Len(ids) \/ S.crash THEN S
    ELSE setPickableEach(setPickable(S, ids[i], pickable, d), ids, i + 1, pickable, d)

RECURSIVE setOutline(_, _, _, _)
RECURSIVE setOutlineEach(_, _, _, _, _)

\* setOutline(ids, outline) for undefined or a string
setOutline(S, id, outline, d) ==
    IF S.crash THEN S
    ELSE IF d = 0 THEN Throw(S)
    ELSE IF id = Undef THEN setOutlineEach(S, getObjects(S, Undef), 1, outline, d - 1)
    ELSE IF Has(S.objects, id) THEN SetEntity(S, id, "outlined", outline)
    ELSE IF ~Has(S.models, id) THEN
        IF FHas(S.types, id) THEN
            IF Len(FGet(S.types, id)) = 0 THEN S
            ELSE setOutlineEach(S, FGet(S.types, id), 1, outline, d - 1)
        ELSE error(S)
    ELSE LET s1 == IF getObjectsErr(S, id) THEN error(S) ELSE S
         IN setOutlineEach(s1, getObjects(S, id), 1, outline, d - 1)

setOutlineEach(S, ids, i, outline, d) ==
    IF i > Len(ids) \/ S.crash THEN S
    ELSE setOutlineEach(setOutline(S, ids[i], outline, d), ids, i + 1, outline, d)

\* ------------------------------------------------------------------------
\* Types
\* ------------------------------------------------------------------------

\* types[type] || (types[type] = {}), then bucket[id] = object
AddToBucket(typesMap, type, id) ==
    LET bucket == IF FHas(typesMap, type) THEN FGet(typesMap, type) ELSE <<>>
    IN FPut(typesMap, type, IF Contains(bucket, id) THEN bucket ELSE Append(bucket, id))

\* delete types[type][id], when the bucket exists
RemoveFromBucket(typesMap, type, id) ==
    IF FHas(typesMap, type)
    THEN FPut(typesMap, type, SelectSeq(FGet(typesMap, type), LAMBDA x : x # id))
    ELSE typesMap

\* setType(id, type) that leaves the object in the bucket of its old type
setTypeKeepsOldBucket(S, id, type) ==
    LET t == IF type = Undef \/ type = "" THEN "DEFAULT" ELSE type IN
    IF Has(S.objects, id) THEN
        LET currentType == TypeOrDefault(Entity(S, id).type) IN
        IF currentType = t THEN S
        ELSE SetEntity([S EXCEPT !.types = AddToBucket(@, t, id)], id, "type", t)
    ELSE IF Has(S.models, id) THEN S
    ELSE error(S)

\* setType(id, type) for a string id
setType(S, id, type) ==
    LET t == IF type = Undef \/ type = "" THEN "DEFAULT" ELSE type IN
    IF Has(S.objects, id) THEN
        LET currentType == TypeOrDefault(Entity(S, id).type) IN
        IF currentType = t THEN S
        ELSE SetEntity([S EXCEPT !.types = AddToBucket(RemoveFromBucket(@, currentType, id), t, id)],
                       id, "type", t)
    ELSE IF Has(S.models, id) THEN S
    ELSE error(S)

RECURSIVE setTypeEach(_, _, _, _)
\* the array loop of setType
setTypeEach(S, ids, i, type) ==
    IF i > Len(ids) THEN S
    ELSE setTypeEach(setType(S, ids[i], type), ids, i + 1, type)

\* ------------------------------------------------------------------------
\* Transform stacks
\* ------------------------------------------------------------------------

\* getComponent(id): objects[id], else models[id]
HasComponent(S, id) == Has(S.objects, id) \/ Has(S.models, id)

\* buildModelTransform(model): replaces model.transform by a new chain whose scale,
\* rotation and translation are registered under the model's id
buildModelTransform(S, id) ==
    [S EXCEPT !.scales = FPut(@, id, DefaultScale),
              !.rotations = FPut(@, id, DefaultQuat),
              !.translations = FPut(@, id, DefaultTranslate),
              !.models = Put(@, id, [Get(S.models, id) EXCEPT !.built = TRUE]),
              !.transformable = FPut(@, id, TRUE)]

\* buildObjectTransform(object) that builds the chain of the object's model anew as well
buildObjectTransformAndModel(S, id) ==
    IF ~FHas(S.objectModels, id) THEN Throw(S)
    ELSE
    LET s1 == IF Has(S.models, ModelOfId(id)) THEN buildModelTransform(S, ModelOfId(id)) ELSE S
    IN [s1 EXCEPT !.scales = FPut(@, id, DefaultScale),
                  !.rotations = FPut(@, id, DefaultQuat),
                  !.translations = FPut(@, id, DefaultTranslate),
                  !.xfParent = FPut(@, id, [ent |-> Get(S.objects, id),
                                           owner |-> FGet(S.objectModels, id), built |-> TRUE]),
                  !.transformable = FPut(@, id, TRUE)]

\* buildObjectTransform(object): a new chain for the object, whose last link is the
\* transform objectModels[id] has at this moment
buildObjectTransform(S, id) ==
    IF ~FHas(S.objectModels, id) THEN Throw(S)
    ELSE
    LET owner == FGet(S.objectModels, id)
        \* model.transform is the chain buildModelTransform made, or still the constructor's
        parentBuilt == owner = Live /\ Get(S.models, ModelOfId(id)).built
    IN [S EXCEPT !.scales = FPut(@, id, DefaultScale),
                 !.rotations = FPut(@, id, DefaultQuat),
                 !.translations = FPut(@, id, DefaultTranslate),
                 !.xfParent = FPut(@, id, [ent |-> Get(S.objects, id), owner |-> owner,
                                          built |-> parentBuilt]),
                 !.transformable = FPut(@, id, TRUE)]

\* getTransformableComponent(id): the state after it; it finds a component iff HasComponent
getTransformableComponent(S, id) ==
    IF ~HasComponent(S, id) THEN S
    ELSE IF FHas(S.transformable, id) THEN S
    ELSE IF Has(S.models, id) THEN buildModelTransform(S, id)
    ELSE buildObjectTransform(S, id)

\* the lookup every transform setter and getter starts with: map[id], building the stack when
\* the entry is missing; found is FALSE when no model or object has this id
Materialize(S, map, id) ==
    IF FHas(map, id) THEN [s |-> S, found |-> TRUE]
    ELSE [s |-> getTransformableComponent(S, id), found |-> HasComponent(S, id)]

\* setScale(id, xyz) that scales what is there by xyz
setScaleRelative(S, id, xyz) ==
    LET r == Materialize(S, S.scales, id) IN
    IF ~r.found THEN error(S)
    ELSE IF ~FHas(r.s.scales, id) THEN Throw(r.s)
    ELSE LET xyzOld == FGet(r.s.scales, id)
         IN [r.s EXCEPT !.scales =
                FPut(@, id, <<xyzOld[1] * xyz[1], xyzOld[2] * xyz[2], xyzOld[3] * xyz[3]>>)]

\* setScale(id, xyz) for a string id
setScale(S, id, xyz) ==
    LET r == Materialize(S, S.scales, id) IN
    IF ~r.found THEN error(S)
    ELSE IF ~FHas(r.s.scales, id) THEN Throw(r.s)
    ELSE [r.s EXCEPT !.scales = FPut(@, id, xyz)]

RECURSIVE setScaleEach(_, _, _, _)
setScaleEach(S, ids, i, xyz) ==
    IF i > Len(ids) \/ S.crash THEN S
    ELSE setScaleEach(setScale(S, ids[i], xyz), ids, i + 1, xyz)

\* getScale(id): returns scale.xyz.slice(), or the viewer itself when nothing has the id
getScale(S, id) ==
    LET r == Materialize(S, S.scales, id) IN
    IF ~r.found THEN Return(error(S), "this")
    ELSE IF ~FHas(r.s.scales, id) THEN Throw(r.s)
    ELSE Return(r.s, FGet(r.s.scales, id))

\* cos and sin of half the angle, for angles that are multiples of 180 degrees
HalfCos(a) == CASE a % 720 = 0 -> 1 [] a % 720 = 360 -> -1 [] OTHER -> 0
HalfSin(a) == CASE a % 720 = 180 -> 1 [] a % 720 = 540 -> -1 [] OTHER -> 0

\* math.eulerToQuaternion(xyz, "XYZ", quat)
eulerToQuaternion(xyz) ==
    LET c1 == HalfCos(xyz[1])  s1 == HalfSin(xyz[1])
        c2 == HalfCos(xyz[2])  s2 == HalfSin(xyz[2])
        c3 == HalfCos(xyz[3])  s3 == HalfSin(xyz[3])
    IN << s1 * c2 * c3 + c1 * s2 * s3,
          c1 * s2 * c3 - s1 * c2 * s3,
          c1 * c2 * s3 + s1 * s2 * c3,
          c1 * c2 * c3 - s1 * s2 * s3 >>

\* setRotate(id, xyz) that does not save the angles
setRotateQuaternionOnly(S, id, xyz) ==
    LET r == Materialize(S, S.rotations, id) IN
    IF ~r.found THEN error(S)
    ELSE IF ~FHas(r.s.rotations, id) THEN Throw(r.s)
    ELSE [r.s EXCEPT !.rotations = FPut(@, id, eulerToQuaternion(xyz))]

\* setRotate(id, xyz) for a string id
setRotate(S, id, xyz) ==
    LET r == Materialize(S, S.rotations, id) IN
    IF ~r.found THEN error(S)
    ELSE IF ~FHas(r.s.rotations, id) THEN Throw(r.s)
    ELSE [r.s EXCEPT !.rotations = FPut(@, id, eulerToQuaternion(xyz)),
                     !.eulerAngles = FPut(@, id, xyz)]

RECURSIVE setRotateEach(_, _, _, _)
setRotateEach(S, ids, i, xyz) ==
    IF i > Len(ids) \/ S.crash THEN S
    ELSE setRotateEach(setRotate(S, ids[i], xyz), ids, i + 1, xyz)

\* getRotate(id): the saved angles, [0,0,0] when none were saved, 0 when nothing has the id
getRotate(S, id) ==
    LET s1 == getTransformableComponent(S, id) IN
    IF ~HasComponent(S, id) THEN Return(error(S), 0)
    ELSE Return(s1, IF FHas(s1.eulerAngles, id) THEN FGet(s1.eulerAngles, id) ELSE DefaultAngles)

\* setTranslate(id, xyz) for a string id
setTranslate(S, id, xyz) ==
    LET r == Materialize(S, S.translations, id) IN
    IF ~r.found THEN error(S)
    ELSE IF ~FHas(r.s.translations, id) THEN Throw(r.s)
    ELSE [r.s EXCEPT !.translations = FPut(@, id, xyz)]

RECURSIVE setTranslateEach(_, _, _, _)
setTranslateEach(S, ids, i, xyz) ==
    IF i > Len(ids) \/ S.crash THEN S
    ELSE setTranslateEach(setTranslate(S, ids[i], xyz), ids, i + 1, xyz)

\* addTranslate(id, xyz) for a string id
addTranslate(S, id, xyz) ==
    LET r == Materialize(S, S.translations, id) IN
    IF ~r.found THEN error(S)
    ELSE IF ~FHas(r.s.translations, id) THEN Throw(r.s)
    ELSE LET xyzOld == FGet(r.s.translations, id)
         IN [r.s EXCEPT !.translations =
                FPut(@, id, <<xyzOld[1] + xyz[1], xyzOld[2] + xyz[2], xyzOld[3] + xyz[3]>>)]

RECURSIVE addTranslateEach(_, _, _, _)
addTranslateEach(S, ids, i, xyz) ==
    IF i > Len(ids) \/ S.crash THEN S
    ELSE addTranslateEach(addTranslate(S, ids[i], xyz), ids, i + 1, xyz)

\* getTranslate(id): translation.xyz.slice(), 0 when nothing has the id
getTranslate(S, id) ==
    LET r == Materialize(S, S.translations, id) IN
    IF ~r.found THEN Return(error(S), 0)
    ELSE IF ~FHas(r.s.translations, id) THEN Throw(r.s)
    ELSE Return(r.s, FGet(r.s.translations, id))

\* the chain object.transform of the registered object id is the one buildObjectTransform made
StackBuilt(S, id) == FHas(S.xfParent, id) /\ FGet(S.xfParent, id).ent = Get(S.objects, id)

\* the xeogl.Scale of the object's own chain
OwnScale(S, id) ==
    IF StackBuilt(S, id) /\ FHas(S.scales, id) THEN FGet(S.scales, id) ELSE DefaultScale

\* the scale the object's chain gets from the chain it ends in: model.transform as it was
\* when buildObjectTransform ran, and the model's present chain when it did not run
InheritedScale(S, id) ==
    LET m == ModelOfId(id) IN
    IF ~FHas(S.objectModels, id) \/ FGet(S.objectModels, id) # Live THEN DefaultScale
    ELSE IF ~Has(S.models, m) \/ ~Get(S.models, m).built \/ ~FHas(S.scales, m) THEN DefaultScale
    ELSE IF StackBuilt(S, id) /\ ~(FGet(S.xfParent, id).owner = Live /\ FGet(S.xfParent, id).built)
         THEN DefaultScale
    ELSE FGet(S.scales, m)

\* the product of the scales along object.transform
EffectiveScale(S, id) ==
    [k \in 1..3 |-> OwnScale(S, id)[k] * InheritedScale(S, id)[k]]

\* ------------------------------------------------------------------------
\* Destroying
\* ------------------------------------------------------------------------

RECURSIVE destroyEntities(_, _, _)
\* the loop of destroy's model branch over model.types["xeogl.Entity"], from index i on;
\* the meta read is that of the model's own entity
destroyEntities(S, entities, i) ==
    IF i > Len(entities) THEN S
    ELSE LET objectId == entities[i]
             type == TypeOrDefault(S.entState[<<objectId, Live>>].type)
         IN destroyEntities(
                [S EXCEPT !.types = RemoveFromBucket(@, type, objectId),
                          !.objects = Del(@, objectId),
                          !.objectModels = FDel(@, objectId),
                          !.eulerAngles = FDel(@, objectId),
                          !.transformable = FDel(@, objectId),
                          !.translations = FDel(@, objectId),
                          !.rotations = FDel(@, objectId),
                          !.scales = FDel(@, objectId),
                          !.xfParent = FDel(@, objectId)],
                entities, i + 1)

\* if (unloadedModel) unloadedModel(id)
callUnloadedModel(S, id) ==
    IF S.cfgUnloadedModel THEN CallOut(S, "unloadedModel", id, Undef) ELSE S

\* destroy(id), the model branch, up to the call of unloadedModel
removeModel(S, id) ==
    LET model == Get(S.models, id)
        s1 == destroyEntities(S, model.entities, 1)
    IN Collect(
        [s1 EXCEPT !.components = (@ \ {id}) \ SeqToSet(model.entities),
                   !.loading = {IF l.id = id THEN [l EXCEPT !.inst = Stale] ELSE l : l \in @},
                   !.models = Del(@, id),
                   !.modelSrcs = FDel(@, id),
                   !.eulerAngles = FDel(@, id),
                   !.transformable = FDel(@, id),
                   !.translations = FDel(@, id),
                   !.rotations = FDel(@, id),
                   !.scales = FDel(@, id)])

\* destroy(id), the model branch, with unloadedModel called before anything is removed
destroyModelHookFirst(S, id) == removeModel(callUnloadedModel(S, id), id)

\* destroy(id), the model branch
destroyModel(S, id) == callUnloadedModel(removeModel(S, id), id)

\* destroy(), no argument: the scene is destroyed and the listed registries are reset
destroyAll(S) ==
    Collect(
        [S EXCEPT !.components = {},
                  !.models = <<>>, !.objects = <<>>, !.objectModels = EmptyF,
                  !.eulerAngles = EmptyF, !.transformable = EmptyF, !.translations = EmptyF,
                  !.rotations = EmptyF, !.scales = EmptyF, !.xfParent = EmptyF,
                  !.annotations = <<>>, !.objectAnnotations = EmptyF,
                  !.clips = <<>>, !.clipHelpers = EmptyF,
                  !.ticking = FALSE])

\* destroy(id) for a string id
destroy(S, id) ==
    IF S.crash THEN S
    ELSE IF id = Undef \/ id = "" THEN destroyAll(S)
    ELSE IF Has(S.annotations, id) THEN
        LET annotation == Get(S.annotations, id) IN
        IF annotation.entity # Undef /\ ~FHas(S.objectAnnotations, annotation.entity)
        THEN Throw(S)
        ELSE [S EXCEPT !.objectAnnotations =
                         IF annotation.entity = Undef THEN @
                         ELSE FPut(@, annotation.entity,
                                  SelectSeq(FGet(@, annotation.entity), LAMBDA a : a # id)),
                       !.components = @ \ {id},
                       !.annotations = Del(@, id)]
    ELSE IF Has(S.lights, id) THEN
        LET s1 == hide(S, id)
        IN [s1 EXCEPT !.components = @ \ {id},
                      !.lights = Del(@, id),
                      !.lightsDirty = TRUE]
    ELSE IF Has(S.clips, id) THEN
        LET s1 == hide(S, id)
        IN [s1 EXCEPT !.components = @ \ {id},
                      !.clips = Del(@, id),
                      !.clipHelpers = FDel(@, id),
                      !.clipsDirty = TRUE]
    ELSE IF Has(S.models, id) THEN destroyModel(S, id)
    \* no branch returned: the array loop runs over the characters of the string, and
    \* destroy(id[0]) of a one-character string calls itself without end
    ELSE Throw(S)

RECURSIVE destroyEach(_, _, _)
\* the array loop of destroy
destroyEach(S, ids, i) ==
    IF i > Len(ids) \/ S.crash THEN S
    ELSE destroyEach(destroy(S, ids[i]), ids, i + 1)

destroyAnnotations(S) == destroyEach(S, getAnnotations(S), 1)
destroyClips(S) == destroyEach(S, getClips(S), 1)
destroyLights(S) == destroyEach(S, getLights(S), 1)

\* ------------------------------------------------------------------------
\* Models
\* ------------------------------------------------------------------------

\* loadModel(id, src): the call itself; the load it issues completes in a later step
loadModel(S, id, src) ==
    LET same == Has(S.models, id) /\ src = Get(S.models, id).src
        s1 == IF Has(S.models, id) /\ ~same THEN destroy(S, id) ELSE S
    IN IF same THEN S
       ELSE IF id \in s1.components THEN error(s1)
       ELSE [s1 EXCEPT !.components = @ \cup {id},
                       !.models = Put(@, id, [src |-> IF S.cfgLoadModel THEN Undef ELSE src,
                                              loaded |-> FALSE, entities |-> <<>>,
                                              built |-> FALSE]),
                       !.modelSrcs = FPut(@, id, src),
                       !.loading = @ \cup {[id |-> id, src |-> src, inst |-> Live]}]

\* loadModel(id, src, ok) issues a load, whose completion calls ok; otherwise loadModel
\* calls ok before it returns
loadIssued(S, id, src) ==
    LET same == Has(S.models, id) /\ src = Get(S.models, id).src
        s1 == IF Has(S.models, id) /\ ~same THEN destroy(S, id) ELSE S
    IN ~same /\ id \notin s1.components

RECURSIVE registerEntities(_, _, _, _)
\* the loop of the "loaded" handler over the entities of the model instance l, from index i on
registerEntities(S, l, nodes, i) ==
    IF i > Len(nodes) THEN S
    ELSE LET objectId == ObjId(l.id, nodes[i].node)
             type == TypeOrDefault(nodes[i].type)
         IN registerEntities(
                [S EXCEPT !.objects = Put(@, objectId, l.inst),
                          !.objectModels = FPut(@, objectId, l.inst),
                          !.types = AddToBucket(@, type, objectId),
                          \* a stack built for the entity registered before is not this one's
                          !.xfParent = IF FHas(@, objectId)
                                       THEN FPut(@, objectId, [FGet(@, objectId) EXCEPT !.ent = "gone"])
                                       ELSE @],
                l, nodes, i + 1)

\* the model instance l has parsed its glTF and fires "loaded"; the load of a stale
\* instance stays in the set, standing for any number of such loads
onLoaded(S, l) ==
    LET nodes == SrcNodes(l.src)
        ids == [j \in 1..Len(nodes) |-> ObjId(l.id, nodes[j].node)]
        created == [k \in {<<ids[j], l.inst>> : j \in 1..Len(nodes)} |->
                      NewEntity(nodes[CHOOSE j \in 1..Len(nodes) : ids[j] = k[1]].type)]
        s1 == [S EXCEPT !.entState = created @@ @,
                        !.components = @ \cup SeqToSet(ids),
                        !.loading = IF l.inst = Live THEN @ \ {l} ELSE @,
                        !.staleDone = IF l.inst = Live THEN @ ELSE @ + 1,
                        !.models = IF l.inst = Live
                                   THEN Put(@, l.id, [Get(S.models, l.id) EXCEPT
                                                        !.loaded = TRUE, !.entities = ids])
                                   ELSE @]
    IN Collect(registerEntities(s1, l, nodes, 1))

\* loadModel(id, src, ok) up to its return, for a call that is given ok: a call that
\* issues no load calls ok(id) before it returns
loadModelOk(S, id, src) ==
    IF loadIssued(S, id, src) THEN loadModel(S, id, src)
    ELSE CallOut(loadModel(S, id, src), "ok", id, Undef)

\* the end of the "loaded" handler that calls ok(id) whether cfg.loadedModel is given or not
signalLoadedOkAtOnce(S, l) ==
    CallOut(IF S.cfgLoadedModel THEN CallOut(S, "loadedModel", l.id, l.src) ELSE S,
            "ok", l.id, Undef)

\* the end of the "loaded" handler of a load that loadModel(id, src, ok) issued:
\* loadedModel(id, src, continuation) when cfg.loadedModel is given, else ok(id)
signalLoaded(S, l) ==
    IF S.cfgLoadedModel THEN CallOut(S, "loadedModel", l.id, l.src)
    ELSE CallOut(S, "ok", l.id, Undef)

\* the function the "loaded" handler gave to loadedModel is called: it calls ok(id)
continue(S, l) == CallOut(S, "ok", l.id, Undef)

\* the load of the model instance l fails
onLoadError(S, l) ==
    LET s1 == [S EXCEPT !.loading = IF l.inst = Live THEN @ \ {l} ELSE @]
    IN IF S.cfgLoadModel THEN error(s1) ELSE s1

\* ------------------------------------------------------------------------
\* Annotations, clips, lights
\* ------------------------------------------------------------------------

\* createAnnotation(id, cfg)
createAnnotation(S, id, cfg) ==
    IF id \in S.components THEN error(S)
    ELSE IF cfg = NoCfg THEN error(S)
    ELSE IF cfg.object = Undef THEN error(S)
    ELSE IF ~Has(S.objects, cfg.object) THEN error(S)
    ELSE IF cfg.primIndex = UndefNum THEN error(S)
    ELSE [S EXCEPT !.components = @ \cup {id},
                   !.annotations = Put(@, id, [entity |-> cfg.object, primIndex |-> cfg.primIndex]),
                   !.objectAnnotations =
                        LET oa == IF FHas(@, cfg.object) THEN FGet(@, cfg.object) ELSE <<>>
                        IN FPut(@, cfg.object, IF Contains(oa, id) THEN oa ELSE Append(oa, id))]

\* setAnnotationObject(id, objectId)
setAnnotationObject(S, id, objectId) ==
    IF ~Has(S.annotations, id) THEN error(S)
    ELSE IF ~Has(S.objects, objectId) THEN error(S)
    ELSE [S EXCEPT !.annotations = Put(@, id, [Get(@, id) EXCEPT !.entity = objectId])]

\* getAnnotationObject(id): the ID of annotation.entity, null for an annotation without
\* entity; the entity keeps its ID when it is destroyed
getAnnotationObject(S, id) ==
    IF ~Has(S.annotations, id) THEN error(S)
    ELSE Return(S, Get(S.annotations, id).entity)

\* createClip(id, cfg)
createClip(S, id, cfg) ==
    IF id \in S.components THEN error(S)
    ELSE IF cfg = NoCfg THEN error(S)
    ELSE LET s1 == [S EXCEPT !.components = @ \cup {id},
                             !.clips = Put(@, id, [pos |-> cfg.pos, dir |-> cfg.dir,
                                                   active |-> cfg.active]),
                             !.clipHelpers = FPut(@, id, [visible |-> TRUE]),
                             !.clipsDirty = TRUE]
         IN IF cfg.shown THEN show(s1, id) ELSE hide(s1, id)

\* createLight(id, cfg) without the test for a component of this ID
createLightUnchecked(S, id, cfg) ==
    IF cfg = NoCfg THEN error(S)
    ELSE LET light == [type |-> "dir", color |-> cfg.color, intensity |-> cfg.intensity,
                       pos |-> UndefVec, dir |-> cfg.dir, space |-> cfg.space]
         IN [S EXCEPT !.components = @ \cup {id},
                      !.lights = Put(@, id, light),
                      !.lightsDirty = TRUE]

\* createLight(id, cfg)
createLight(S, id, cfg) ==
    IF id \in S.components THEN error(S)
    ELSE IF cfg = NoCfg THEN error(S)
    ELSE LET type == IF cfg.type = Undef THEN "dir" ELSE cfg.type
             light == IF type = "ambient"
                      THEN [type |-> "ambient", color |-> cfg.color, intensity |-> cfg.intensity,
                            pos |-> UndefVec, dir |-> UndefVec, space |-> Undef]
                      ELSE IF type = "point"
                      THEN [type |-> "point", color |-> cfg.color, intensity |-> cfg.intensity,
                            pos |-> cfg.pos, dir |-> UndefVec, space |-> cfg.space]
                      ELSE [type |-> "dir", color |-> cfg.color, intensity |-> cfg.intensity,
                            pos |-> UndefVec, dir |-> cfg.dir, space |-> cfg.space]
             s0 == IF type \notin {"ambient", "point", "dir"} THEN error(S) ELSE S
             s1 == [s0 EXCEPT !.components = @ \cup {id},
                              !.lights = Put(@, id, light),
                              !.lightsDirty = TRUE]
         IN IF cfg.shown THEN show(s1, id) ELSE hide(s1, id)

LightCfg(type, dir, color) ==
    [type |-> type, dir |-> dir, pos |-> UndefVec, color |-> color, intensity |-> 1,
     space |-> IF type = "ambient" THEN Undef ELSE "view", shown |-> FALSE]

\* defaultLights(); vector components are held in tenths
defaultLights(S) ==
    LET s0 == destroyLights(S)
        s1 == createLight(s0, "light0", LightCfg("ambient", UndefVec, <<10, 10, 10>>))
        s2 == createLight(s1, "light1", LightCfg("dir", <<8, -6, -8>>, <<10, 10, 10>>))
        s3 == createLight(s2, "light2", LightCfg("dir", <<-8, -3, -4>>, <<8, 8, 8>>))
    IN createLight(s3, "light3", LightCfg("dir", <<4, -4, 8>>, <<8, 10, 10>>))

\* clear()
RECURSIVE clearModels(_, _, _)
clearModels(S, ids, i) ==
    IF i > Len(ids) \/ S.crash THEN S
    ELSE clearModels(IF Has(S.models, ids[i]) THEN destroy(S, ids[i]) ELSE S, ids, i + 1)

clear(S) == destroyLights(destroyClips(destroyAnnotations(clearModels(S, getModels(S), 1))))

\* the "tick" handler without the rebuild of the lights: it clears both flags
onTickClipsOnly(S) ==
    [S EXCEPT !.sceneClips = IF S.clipsDirty THEN Keys(S.clips) ELSE @,
              !.clipsDirty = FALSE, !.lightsDirty = FALSE]

\* onTick, the handler of the "tick" event of the scene: the rebuild of scene.clips.clips
\* and of scene.lights.lights, each when its flag is set (the orbit animation is left out)
onTick(S) ==
    LET s1 == IF S.clipsDirty
              THEN [S EXCEPT !.sceneClips = Keys(S.clips), !.clipsDirty = FALSE]
              ELSE S
    IN IF s1.lightsDirty
       THEN [s1 EXCEPT !.sceneLights = Keys(s1.lights), !.lightsDirty = FALSE]
       ELSE s1

\* setPos(id, pos) that does not look at the type of the light
setPosAnyLight(S, id, pos) ==
    IF Has(S.lights, id)
    THEN [S EXCEPT !.lights = Put(@, id, [Get(@, id) EXCEPT !.pos = pos])]
    ELSE IF Has(S.clips, id)
    THEN [S EXCEPT !.clips = Put(@, id, [Get(@, id) EXCEPT !.pos = pos])]
    ELSE error(S)

\* setPos(id, pos) for a string id; warn(msg) is console.warn, nothing else
setPos(S, id, pos) ==
    IF Has(S.lights, id) THEN
        IF Get(S.lights, id).type # "point" THEN S
        ELSE [S EXCEPT !.lights = Put(@, id, [Get(@, id) EXCEPT !.pos = pos])]
    ELSE IF Has(S.clips, id)
    THEN [S EXCEPT !.clips = Put(@, id, [Get(@, id) EXCEPT !.pos = pos])]
    ELSE error(S)

RECURSIVE setPosEach(_, _, _, _)
\* setPos(ids, pos), the array loop
setPosEach(S, ids, i, pos) ==
    IF i > Len(ids) THEN S ELSE setPosEach(setPos(S, ids[i], pos), ids, i + 1, pos)

\* setDir(id, dir) for a string id
setDir(S, id, dir) ==
    IF Has(S.lights, id) THEN
        IF Get(S.lights, id).type # "dir" THEN S
        ELSE [S EXCEPT !.lights = Put(@, id, [Get(@, id) EXCEPT !.dir = dir])]
    ELSE IF Has(S.clips, id)
    THEN [S EXCEPT !.clips = Put(@, id, [Get(@, id) EXCEPT !.dir = dir])]
    ELSE error(S)

RECURSIVE setDirEach(_, _, _, _)
\* setDir(ids, dir), the array loop
setDirEach(S, ids, i, dir) ==
    IF i > Len(ids) THEN S ELSE setDirEach(setDir(S, ids[i], dir), ids, i + 1, dir)

\* setSpace(id, space) for a string id: a space that is neither "view" nor "world" is
\* reported and taken as "view"
setSpace(S, id, space) ==
    IF ~Has(S.lights, id) THEN error(S)
    ELSE IF Get(S.lights, id).type \notin {"dir", "point"} THEN error(S)
    ELSE LET given == IF space = Undef \/ space = "" THEN "view" ELSE space
             s1 == IF given \notin {"view", "world"} THEN error(S) ELSE S
         IN [s1 EXCEPT !.lights =
                Put(@, id, [Get(@, id) EXCEPT
                              !.space = IF given \in {"view", "world"} THEN given ELSE "view"])]

RECURSIVE setSpaceEach(_, _, _, _)
\* setSpace(ids, space), the array loop
setSpaceEach(S, ids, i, space) ==
    IF i > Len(ids) THEN S ELSE setSpaceEach(setSpace(S, ids[i], space), ids, i + 1, space)

\* ------------------------------------------------------------------------
\* Events
\* ------------------------------------------------------------------------

\* on(event, callback)
on(S, event, callback) ==
    LET subs == IF Has(S.eventSubs, event) THEN Get(S.eventSubs, event) ELSE <<>>
    IN [S EXCEPT !.eventSubs = Put(@, event, Append(subs, callback))]

\* subs[i](value)
CallBack(S, callback, value) ==
    [S EXCEPT !.calls = Append(@, [fn |-> callback, value |-> value])]

RECURSIVE fireEach(_, _, _, _)
\* the loop of fire over subs, from index i on
fireEach(S, subs, i, value) ==
    IF i > Len(subs) THEN S
    ELSE fireEach(CallBack(S, subs[i], value), subs, i + 1, value)

RECURSIVE fireEvents(_, _, _)
\* fire that calls the callbacks of every event, from the event at index i on
fireEvents(S, i, value) ==
    IF i > Len(S.eventSubs) THEN S
    ELSE fireEvents(fireEach(S, S.eventSubs[i][2], 1, value), i + 1, value)

\* fire that calls the callbacks of every event
fireEveryEvent(S, event, value) == fireEvents(S, 1, value)

\* fire(event, value)
fire(S, event, value) ==
    IF Has(S.eventSubs, event) THEN fireEach(S, Get(S.eventSubs, event), 1, value)
    ELSE S

\* ------------------------------------------------------------------------
\* Material getters, camera
\* ------------------------------------------------------------------------

\* getOpacity(id): material.alpha of the object, 1.0 when no object has the id
getOpacity(S, id) ==
    IF ~Has(S.objects, id) THEN Return(error(S), OpacityOne)
    ELSE Return(S, Entity(S, id).opacity)

\* getColor(id): the colour of the object, else of the light
getColor(S, id) ==
    IF Has(S.objects, id) THEN Return(S, Entity(S, id).color)
    ELSE IF Has(S.lights, id) THEN Return(S, Get(S.lights, id).color)
    ELSE Return(error(S), UndefVec)

\* showOutline(ids)
showOutline(S, ids) == setOutline(S, ids, TRUE, MaxDepth)

\* this.setClippable(ids): the method takes the IDs only and makes them clippable
thisSetClippable(S, ids) == setClippable(S, ids, TRUE, MaxDepth)

\* this.setPickable(ids): the method takes the IDs only and makes them pickable
thisSetPickable(S, ids) == setPickable(S, ids, TRUE, MaxDepth)

\* setEyeLookUp(eye, look, up) that takes the default for the up vector
setEyeLookUpDefaultUp(S, eye, look, up) ==
    [S EXCEPT !.view = [eye |-> eye, look |-> look, up |-> <<0, 1, 0>>]]

\* setEyeLookUp(eye, look, up)
setEyeLookUp(S, eye, look, up) ==
    [S EXCEPT !.view = [eye |-> eye, look |-> look,
                        up |-> IF up = UndefVec THEN <<0, 1, 0>> ELSE up]]

\* setUp(up)
setUp(S, up) == [S EXCEPT !.view.up = up]

\* getEye(), getLook(), getUp()
getEye(S) == Return(S, S.view.eye)
getLook(S) == Return(S, S.view.look)
getUp(S) == Return(S, S.view.up)

\* ------------------------------------------------------------------------
\* Boundaries
\* ------------------------------------------------------------------------

\* the start values of the minima in getAABB; the maxima start at -Far
Far == 100000

\* the box that holds nothing
Collapsed == <<Far, Far, Far, -Far, -Far, -Far>>

\* worldBoundary.aabb of an entity, which xeogl derives from its geometry: taken as given
\* for each entity, as [xmin, ymin, zmin, xmax, ymax, zmax]
EntityAABB(o) ==
    CASE o = "m1#1" -> <<0, 0, 0, 1, 1, 1>>
      [] o = "m1#2" -> <<2, 0, -1, 3, 2, 0>>
      [] o = "m2#1" -> <<-2, -1, 0, -1, 1, 4>>

Min(a, b) == IF a < b THEN a ELSE b
Max(a, b) == IF a > b THEN a ELSE b

\* the smallest box that holds the boxes a and b
Union(a, b) ==
    <<Min(a[1], b[1]), Min(a[2], b[2]), Min(a[3], b[3]),
      Max(a[4], b[4]), Max(a[5], b[5]), Max(a[6], b[6])>>

RECURSIVE UnionOf(_, _, _)
\* the smallest box that holds acc and the boxes of the entities ids[i..]
UnionOf(acc, ids, i) ==
    IF i > Len(ids) THEN acc ELSE UnionOf(Union(acc, EntityAABB(ids[i])), ids, i + 1)

\* worldBoundary.aabb of a model: the boundary of its entities
ModelAABB(S, id) == UnionOf(Collapsed, Get(S.models, id).entities, 1)

\* scene.worldBoundary.aabb: the boundary of the entities of the scene
SceneAABB(S) == UnionOf(Collapsed, Keys(S.objects), 1)

\* an entry of a list given to getAABB: an ID, or a box of six numbers
IdEntry(id) == [id |-> id, box |-> <<>>]
BoxEntry(box) == [id |-> Undef, box |-> box]

\* xeogl._isString(entry)
IsString(entry) == entry.box = <<>>

\* the targets of getAABB: nothing, an ID, a box, or a list of entries
NoTarget == [kind |-> "undefined", id |-> Undef, box |-> <<>>, list |-> <<>>]
IdTarget(id) == [kind |-> "string", id |-> id, box |-> <<>>, list |-> <<>>]
BoxTarget(box) == [kind |-> "aabb", id |-> Undef, box |-> box, list |-> <<>>]
ListTarget(list) == [kind |-> "list", id |-> Undef, box |-> <<>>, list |-> list]

\* what getAABB returns: a box, null, or the list it was given
ReturnAABB(S, aabb) == Return(S, [kind |-> "aabb", aabb |-> aabb])
ReturnNull(S) == Return(S, [kind |-> "null", aabb |-> <<>>])
ReturnTarget(S) == Return(S, [kind |-> "target", aabb |-> <<>>])

\* the component scene.components[id], else models[id], has a worldBoundary
HasBoundary(S, id) == Has(S.objects, id) \/ Has(S.models, id)

\* component.worldBoundary.aabb
ComponentAABB(S, id) == IF Has(S.objects, id) THEN EntityAABB(id) ELSE ModelAABB(S, id)

\* component.pos: point lights and clips have one
HasPos(S, id) ==
    \/ Has(S.lights, id) /\ Get(S.lights, id).type = "point"
    \/ Has(S.clips, id)

ComponentPos(S, id) == IF Has(S.lights, id) THEN Get(S.lights, id).pos ELSE Get(S.clips, id).pos

\* the six tests on aabb of the loop of getAABB
ExpandByAABB(acc, aabb) == Union(acc, aabb)

\* the six tests on pos of the loop of getAABB: pos[3], pos[4] and pos[5] are undefined,
\* and no number is smaller than undefined
ExpandByPos(acc, pos) ==
    <<Min(acc[1], pos[1]), Min(acc[2], pos[2]), Min(acc[3], pos[3]), acc[4], acc[5], acc[6]>>

RECURSIVE getAABBMany(_, _, _, _, _)
RECURSIVE getAABBList(_, _)

\* getAABB of a list with one entry, a string
getAABBOne(S, id) ==
    IF id \in S.components THEN
        IF HasBoundary(S, id) THEN ReturnAABB(S, ComponentAABB(S, id))
        ELSE ReturnNull(error(S))
    ELSE IF FHas(S.types, id) THEN getAABBList(S, [i \in 1..Len(FGet(S.types, id)) |->
                                                      IdEntry(FGet(S.types, id)[i])])
    ELSE ReturnNull(S)

\* getAABB of a list: the list itself when its first entry is no string, the boundary of
\* the scene when no entry has set valid
getAABBList(S, list) ==
    IF Len(list) = 0 \/ ~IsString(list[1]) THEN ReturnTarget(S)
    ELSE IF Len(list) = 1 THEN getAABBOne(S, list[1].id)
    ELSE getAABBMany(S, list, 1, Collapsed, FALSE)

\* the loop of getAABB over the entries list[i..], with the box and the flag valid so far
getAABBMany(S, list, i, acc, valid) ==
    IF i > Len(list) THEN ReturnAABB(S, IF valid THEN acc ELSE SceneAABB(S))
    ELSE IF ~IsString(list[i]) THEN getAABBMany(S, list, i + 1, acc, valid)
    ELSE LET id == list[i].id IN
         IF id \in S.components \/ Has(S.models, id) THEN
             IF HasBoundary(S, id)
             THEN getAABBMany(S, list, i + 1, ExpandByAABB(acc, ComponentAABB(S, id)), TRUE)
             ELSE IF HasPos(S, id)
             THEN getAABBMany(S, list, i + 1, ExpandByPos(acc, ComponentPos(S, id)), TRUE)
             ELSE getAABBMany(S, list, i + 1, acc, valid)
         ELSE IF FHas(S.types, id) /\ Len(FGet(S.types, id)) > 0 THEN
             LET ofType == getAABBList(S, [j \in 1..Len(FGet(S.types, id)) |->
                                              IdEntry(FGet(S.types, id)[j])])
             IN getAABBMany(IF ofType.err THEN error(S) ELSE S, list, i + 1,
                            IF ofType.ret.kind = "aabb"
                            THEN ExpandByAABB(acc, ofType.ret.aabb) ELSE acc,
                            TRUE)
         ELSE getAABBMany(S, list, i + 1, acc, valid)

\* getAABB(target)
getAABB(S, target) ==
    IF target.kind = "undefined" THEN ReturnAABB(S, SceneAABB(S))
    ELSE IF target.kind = "aabb" THEN ReturnAABB(S, target.box)
    ELSE IF target.kind = "string" THEN getAABBOne(S, target.id)
    ELSE getAABBList(S, target.list)

\* ------------------------------------------------------------------------
\* Bookmarks
\* ------------------------------------------------------------------------

\* math.vecToArray(v) of xeogl: the components of v as a new array
vecToArray(v) == [k \in 1..Len(v) |-> v[k]]

\* getTranslate(id) of getBookmark: the translation when it is to be written, else undefined
bookmarkTranslate(S, id) ==
    IF ~FHas(S.translations, id) THEN UndefVec
    ELSE LET xyz == FGet(S.translations, id)
         IN IF xyz[1] # 0 \/ xyz[2] # 0 \/ xyz[2] # 0 THEN vecToArray(xyz) ELSE UndefVec

\* getScale(id) of getBookmark
bookmarkScale(S, id) ==
    IF ~FHas(S.scales, id) THEN UndefVec
    ELSE LET xyz == FGet(S.scales, id)
         IN IF xyz[1] # 1 \/ xyz[2] # 1 \/ xyz[2] # 1 THEN vecToArray(xyz) ELSE UndefVec

\* getRotate(id) of getBookmark
bookmarkRotate(S, id) ==
    IF ~FHas(S.eulerAngles, id) THEN UndefVec
    ELSE LET xyz == FGet(S.eulerAngles, id)
         IN IF xyz[1] # 0 \/ xyz[2] # 0 \/ xyz[3] # 0 THEN vecToArray(xyz) ELSE UndefVec

\* the entry getBookmark makes for the model id
modelState(S, id) ==
    [id |-> id, src |-> FGet(S.modelSrcs, id),
     translate |-> bookmarkTranslate(S, id), scale |-> bookmarkScale(S, id),
     rotate |-> bookmarkRotate(S, id)]

\* the entry getBookmark makes for the object id.  A field that is left out of the entry
\* is UndefVec, UndefNum or the empty list here; visible is FALSE when "visible: false" is
\* written, outlined is TRUE when "outlined: true" is written
objectState(S, id) ==
    LET object == Entity(S, id) IN
    [id |-> id,
     translate |-> bookmarkTranslate(S, id), scale |-> bookmarkScale(S, id),
     rotate |-> bookmarkRotate(S, id),
     visible |-> object.visible,
     opacity |-> IF object.alphaMode = "blend" /\ object.opacity < OpacityOne
                 THEN object.opacity ELSE UndefNum,
     outlined |-> object.outlined,
     clippable |-> IF ~object.clippable THEN <<FALSE>> ELSE <<>>,
     pickable |-> IF ~object.pickable THEN <<FALSE>> ELSE <<>>]

\* objectState is not null: the entry is written
Written(os) ==
    \/ os.translate # UndefVec \/ os.scale # UndefVec \/ os.rotate # UndefVec
    \/ ~os.visible \/ os.opacity # UndefNum \/ os.outlined
    \/ os.clippable # <<>> \/ os.pickable # <<>>

\* the entry getBookmark makes for the clip id; active is TRUE when the field is left out,
\* shown is TRUE when "shown: true" is written
clipState(S, id) ==
    LET clip == Get(S.clips, id) IN
    [id |-> id, pos |-> vecToArray(clip.pos), dir |-> vecToArray(clip.dir),
     active |-> clip.active,
     shown |-> FHas(S.clipHelpers, id) /\ ~FGet(S.clipHelpers, id).visible]

\* the entry getBookmark makes for the annotation id
annotationState(S, id) ==
    LET annotation == Get(S.annotations, id) IN
    [id |-> id, object |-> annotation.entity, primIndex |-> annotation.primIndex]

\* getBookmark(): a list that is empty stands for a field of the document that is left out
getBookmark(S) ==
    LET modelIds == Keys(S.models)
        objectIds == Keys(S.objects)
        objectStates == [i \in 1..Len(objectIds) |-> objectState(S, objectIds[i])]
        clipIds == Keys(S.clips)
        annotationIds == Keys(S.annotations)
    IN [models |-> [i \in 1..Len(modelIds) |-> modelState(S, modelIds[i])],
        objects |-> SelectSeq(objectStates, Written),
        annotations |-> [i \in 1..Len(annotationIds) |-> annotationState(S, annotationIds[i])],
        clips |-> [i \in 1..Len(clipIds) |-> clipState(S, clipIds[i])],
        lights |-> Keys(S.lights),
        eye |-> vecToArray(S.view.eye), look |-> vecToArray(S.view.look),
        up |-> vecToArray(S.view.up)]

\* the calls setBookmark makes for one field of an entry: none when the field is left out
\* of the document, or when an exception has ended the restore
restoreTranslate(S, id, xyz) == IF S.crash \/ xyz = UndefVec THEN S ELSE setTranslate(S, id, xyz)
restoreScale(S, id, xyz) == IF S.crash \/ xyz = UndefVec THEN S ELSE setScale(S, id, xyz)
restoreRotate(S, id, xyz) == IF S.crash \/ xyz = UndefVec THEN S ELSE setRotate(S, id, xyz)
restoreOpacity(S, id, opacity) ==
    IF S.crash \/ opacity = UndefNum THEN S ELSE setOpacity(S, id, opacity, MaxDepth)
restoreOutlined(S, id, outlined) == IF S.crash \/ ~outlined THEN S ELSE showOutline(S, id)
restoreClippable(S, id, clippable) ==
    IF S.crash \/ clippable = <<>> THEN S ELSE thisSetClippable(S, id)
restorePickable(S, id, pickable) ==
    IF S.crash \/ pickable = <<>> THEN S ELSE thisSetPickable(S, id)

\* the body of the loop of setBookmark over the object states
restoreObject(S, os) ==
    restorePickable(
        restoreClippable(
            restoreOutlined(
                restoreOpacity(
                    restoreRotate(
                        restoreScale(
                            restoreTranslate(S, os.id, os.translate),
                            os.id, os.scale),
                        os.id, os.rotate),
                    os.id, os.opacity),
                os.id, os.outlined),
            os.id, os.clippable),
        os.id, os.pickable)

\* the loop of setBookmark over the object states, from index i on
RECURSIVE restoreObjects(_, _, _)
restoreObjects(S, objectStates, i) ==
    IF i > Len(objectStates) \/ S.crash THEN S
    ELSE restoreObjects(restoreObject(S, objectStates[i]), objectStates, i + 1)

\* the loop of setBookmark over the clip states
RECURSIVE restoreClips(_, _, _)
restoreClips(S, clipStates, i) ==
    IF i > Len(clipStates) \/ S.crash THEN S
    ELSE restoreClips(createClip(S, clipStates[i].id, clipStates[i]), clipStates, i + 1)

\* the loop of setBookmark over the annotation states
RECURSIVE restoreAnnotations(_, _, _)
restoreAnnotations(S, annotationStates, i) ==
    IF i > Len(annotationStates) \/ S.crash THEN S
    ELSE restoreAnnotations(createAnnotation(S, annotationStates[i].id, annotationStates[i]),
                            annotationStates, i + 1)

\* the lights of the bookmark are not loaded; without them the default lights are created
restoreLights(S, lightStates) ==
    IF S.crash \/ Len(lightStates) > 0 THEN S ELSE defaultLights(S)

\* the IDs of the object states with "visible: false"
Invisible(objectStates) ==
    LET hidden == SelectSeq(objectStates, LAMBDA os : ~os.visible)
    IN [i \in 1..Len(hidden) |-> hidden[i].id]

\* setBookmark that hides no object
hideNothing(S, invisible) == S

\* hide(invisible), when the list is not empty
restoreInvisible(S, invisible) ==
    IF S.crash \/ Len(invisible) = 0 THEN S ELSE hideEach(S, invisible)

\* setEyeLookUp(bookmark.eye, bookmark.look, bookmark.up); the projection and outline
\* settings that setBookmark sets next are no part of the state held here
restoreCamera(S, bookmark) ==
    IF S.crash THEN S ELSE setEyeLookUp(S, bookmark.eye, bookmark.look, bookmark.up)

\* the function setBookmark gives loadModels: what is restored once every model is loaded
restoreRest(S, bookmark) ==
    restoreCamera(
        restoreInvisible(
            restoreLights(
                restoreAnnotations(
                    restoreClips(
                        restoreObjects(S, bookmark.objects, 1),
                        bookmark.clips, 1),
                    bookmark.annotations, 1),
                bookmark.lights),
            Invisible(bookmark.objects)),
        bookmark)

\* what the restore returns with: the index of the model whose load it waits for, or
\* Completed when ok has been called
Completed == 0

\* ok(), unless an exception has ended the restore
callOk(S) == IF S.crash THEN S ELSE Return(S, Completed)

RECURSIVE loadModels(_, _, _)
RECURSIVE modelLoaded(_, _, _)
RECURSIVE loadModelsAtOnce(_, _, _)

\* after loadModel(id, src, ok) has returned in S: the restore waits when a load was
\* issued, and goes on when loadModel has called ok itself
afterLoadModel(S, issued, bookmark, i) ==
    IF S.crash THEN S
    ELSE IF issued THEN Return(S, i)
    ELSE modelLoaded(S, bookmark, i)

\* loadModels(_modelsData, i, ok) that issues the loads of all the models from i on at once
loadModelsAtOnce(S, bookmark, i) ==
    IF i > Len(bookmark.models) THEN Return(S, i - 1)
    ELSE loadModelsAtOnce(loadModel(S, bookmark.models[i].id, bookmark.models[i].src),
                          bookmark, i + 1)

\* loadModels(_modelsData, i, ok) of setBookmark
loadModels(S, bookmark, i) ==
    IF i > Len(bookmark.models) THEN callOk(restoreRest(S, bookmark))
    ELSE afterLoadModel(loadModel(S, bookmark.models[i].id, bookmark.models[i].src),
                        loadIssued(S, bookmark.models[i].id, bookmark.models[i].src),
                        bookmark, i)

\* loadModels(_modelsData, i + 1, ok), unless an exception has ended the restore
nextModel(S, bookmark, i) == IF S.crash THEN S ELSE loadModels(S, bookmark, i + 1)

\* the function loadModels gives loadModel as ok, for the model at index i
modelLoaded(S, bookmark, i) ==
    nextModel(
        restoreRotate(
            restoreScale(
                restoreTranslate(S, bookmark.models[i].id, bookmark.models[i].translate),
                bookmark.models[i].id, bookmark.models[i].scale),
            bookmark.models[i].id, bookmark.models[i].rotate),
        bookmark, i)

\* setBookmark that sets the camera before it loads the models
afterClearCameraFirst(S, bookmark) ==
    IF S.crash THEN S
    ELSE IF Len(bookmark.models) = 0 THEN Return(defaultLights(S), Completed)
    ELSE loadModels(restoreCamera(S, bookmark), bookmark, 1)

\* setBookmark that does not create the default lights for a document with no models
afterClearNoLights(S, bookmark) ==
    IF S.crash THEN S
    ELSE IF Len(bookmark.models) = 0 THEN Return(S, Completed)
    ELSE loadModels(S, bookmark, 1)

\* setBookmark after this.clear()
afterClear(S, bookmark) ==
    IF S.crash THEN S
    ELSE IF Len(bookmark.models) = 0 THEN Return(defaultLights(S), Completed)
    ELSE loadModels(S, bookmark, 1)

\* setBookmark(bookmark, ok), up to its return
setBookmark(S, bookmark) == afterClear(clear(S), bookmark)

\* ------------------------------------------------------------------------
\* The viewer after construction, and the steps
\* ------------------------------------------------------------------------

\* the pose of the camera xeogl creates with the scene
DefaultView == [eye |-> <<0, 0, 10>>, look |-> <<0, 0, 0>>, up |-> <<0, 1, 0>>]

\* a document with no field
NoBookmark ==
    [models |-> <<>>, objects |-> <<>>, annotations |-> <<>>, clips |-> <<>>, lights |-> <<>>,
     eye |-> <<>>, look |-> <<>>, up |-> <<>>]

\* no setBookmark has been called
NoRestore == [phase |-> "idle", bookmark |-> NoBookmark, waiting |-> 0]

\* the restore of bookmark after a step of it left the viewer in S: it waits for the load
\* of the model at index S.ret, or has called ok, or has ended in an exception
RestoreAfter(S, bookmark) ==
    [phase |-> IF S.crash THEN "failed" ELSE IF S.ret = Completed THEN "done" ELSE "loading",
     bookmark |-> bookmark,
     waiting |-> IF S.crash THEN 0 ELSE S.ret]

\* the restore waits for the completion of the load l
Awaited(l) ==
    /\ restore.phase = "loading"
    /\ l.inst = Live
    /\ l.id = restore.bookmark.models[restore.waiting].id

\* the lights a new xeogl.Scene holds before the viewer has rebuilt the list: components
\* of the engine, none of them registered in lights
SceneDefaultLights == <<"xeogl.default">>

\* the registries as the constructor declares them; the hooks cfg.loadedModel and
\* cfg.unloadedModel are left out of the configuration
NewViewer(customLoader) ==
    [cfgLoadModel |-> customLoader, cfgLoadedModel |-> FALSE, cfgUnloadedModel |-> FALSE,
     models |-> <<>>, modelSrcs |-> EmptyF,
     loading |-> {}, staleDone |-> 0, objects |-> <<>>, objectModels |-> EmptyF,
     entState |-> EmptyF, types |-> EmptyF, scales |-> EmptyF, rotations |-> EmptyF,
     translations |-> EmptyF, eulerAngles |-> EmptyF, transformable |-> EmptyF, xfParent |-> EmptyF,
     components |-> {}, lights |-> <<>>, clips |-> <<>>, clipHelpers |-> EmptyF,
     annotations |-> <<>>, objectAnnotations |-> EmptyF,
     clipsDirty |-> TRUE, lightsDirty |-> FALSE, ticking |-> TRUE,
     sceneClips |-> <<>>, sceneLights |-> SceneDefaultLights, eventSubs |-> <<>>,
     view |-> DefaultView,
     ret |-> Undef, err |-> FALSE, crash |-> FALSE, calls |-> <<>>]

\* what a step records about the call it made
Call(S, op, ids, val) ==
    [op |-> op, ret |-> S.ret, err |-> S.err, crash |-> S.crash, calls |-> S.calls]

\* the viewer starts in state S
Start(S) ==
    /\ cfgLoadModel = S.cfgLoadModel /\ cfgLoadedModel = S.cfgLoadedModel
    /\ cfgUnloadedModel = S.cfgUnloadedModel /\ models = S.models /\ modelSrcs = S.modelSrcs
    /\ loading = S.loading /\ staleDone = S.staleDone /\ objects = S.objects
    /\ objectModels = S.objectModels /\ entState = S.entState /\ types = S.types
    /\ scales = S.scales /\ rotations = S.rotations /\ translations = S.translations
    /\ eulerAngles = S.eulerAngles /\ transformable = S.transformable
    /\ xfParent = S.xfParent /\ components = S.components /\ lights = S.lights
    /\ clips = S.clips /\ clipHelpers = S.clipHelpers /\ annotations = S.annotations
    /\ objectAnnotations = S.objectAnnotations /\ clipsDirty = S.clipsDirty
    /\ lightsDirty = S.lightsDirty /\ ticking = S.ticking /\ sceneClips = S.sceneClips
    /\ sceneLights = S.sceneLights /\ eventSubs = S.eventSubs /\ view = S.view
    /\ continuations = {}
    /\ restore = NoRestore
    /\ last = Call(S, "new", <<>>, Undef)

\* the constructor ends with this.defaultLights()
InitWith(customLoader) == Start(defaultLights(NewViewer(customLoader)))

\* the step that makes the call op(ids, val) and leaves the viewer in state S
Write(S, op, ids, val) ==
    /\ cfgLoadModel' = S.cfgLoadModel /\ cfgLoadedModel' = S.cfgLoadedModel
    /\ cfgUnloadedModel' = S.cfgUnloadedModel /\ models' = S.models /\ modelSrcs' = S.modelSrcs
    /\ loading' = S.loading /\ staleDone' = S.staleDone /\ objects' = S.objects
    /\ objectModels' = S.objectModels /\ entState' = S.entState /\ types' = S.types
    /\ scales' = S.scales /\ rotations' = S.rotations /\ translations' = S.translations
    /\ eulerAngles' = S.eulerAngles /\ transformable' = S.transformable
    /\ xfParent' = S.xfParent /\ components' = S.components /\ lights' = S.lights
    /\ clips' = S.clips /\ clipHelpers' = S.clipHelpers /\ annotations' = S.annotations
    /\ objectAnnotations' = S.objectAnnotations /\ clipsDirty' = S.clipsDirty
    /\ lightsDirty' = S.lightsDirty /\ ticking' = S.ticking /\ sceneClips' = S.sceneClips
    /\ sceneLights' = S.sceneLights /\ eventSubs' = S.eventSubs /\ view' = S.view
    /\ last' = Call(S, op, ids, val)

\* a call that is no part of a restore
Apply(S, op, ids, val) == Write(S, op, ids, val) /\ UNCHANGED <<restore, continuations>>

\* type tags given to setType; "m1" is also a model ID
TypeTags == {"T", "m1"}

\* an ID that denotes nothing
Unknown == "zz"

\* loadModel("m1", "a") and loadModel("m2", "c")
LoadModel ==
    \E in \in {<<"m1", "a">>, <<"m2", "c">>} :
        Apply(loadModel(St, in[1], in[2]), "loadModel", <<in[1]>>, in[2])

\* loadModel("m1", "b"): replaces m1 when it was loaded from "a"
LoadModelB == Apply(loadModel(St, "m1", "b"), "loadModel", <<"m1">>, "b")

\* a load completes, of a loadModel call that was given no ok, in a viewer without
\* cfg.loadedModel
Loaded ==
    \E l \in loading :
        /\ ~Awaited(l)
        /\ l.inst = Stale => staleDone < MaxStale
        /\ Apply(onLoaded(St, l), "loaded", <<l.id>>, Undef)

\* a load fails
LoadError ==
    \E l \in loading :
        /\ l.inst = Live /\ ~Awaited(l)
        /\ Apply(onLoadError(St, l), "loadError", <<l.id>>, Undef)

\* setType(id, type), type omitted or given
SetType ==
    \E id \in {"m1#2", "m2#1"}, type \in TypeTags :
        Apply(setType(St, id, type), "setType", <<id>>, type)

\* destroy(id) of a model
DestroyModel ==
    \E id \in ModelIds :
        /\ Has(models, id)
        /\ Apply(destroy(St, id), "destroy", <<id>>, Undef)

\* hide(id) and show(id)
HideShow ==
    \E id \in {"m2#1"}, visible \in BOOLEAN :
        Apply(setVisible(St, id, visible, MaxDepth), "setVisible", <<id>>, visible)

Init == InitWith(FALSE)

\* models and types
Next == LoadModel \/ Loaded \/ LoadError \/ DestroyModel \/ SetType

Spec == Init /\ [][Next]_vars

\* getObjects(list) for lists of model IDs, type tags and object IDs
GetObjects ==
    \E ids \in UNION {[1..n -> {"m1", "T", "m1#2"}] : n \in 1..MaxList} :
        Apply(Return(St, getObjectsList(St, ids)), "getObjects", ids, Undef)

\* models, types and queries, no model is destroyed
NextQuery == LoadModel \/ Loaded \/ SetType \/ GetObjects

SpecQuery == Init /\ [][NextQuery]_vars

\* setType("m2#1", type)
SetTypeOther ==
    \E type \in TypeTags : Apply(setType(St, "m2#1", type), "setType", <<"m2#1">>, type)

\* the list a batch call is given: an unknown ID between two known ones
BatchIds == <<"m1#1", Unknown, "m2#1">>

\* hide(id)
Hide == Apply(hide(St, "m1"), "hide", <<"m1">>, FALSE)

\* setOpacity(id, 0.5)
SetOpacity == Apply(setOpacity(St, "m1", 50, MaxDepth), "setOpacity", <<"m1">>, 50)

\* setColor(id, [1, 0, 0])
SetColor == Apply(setColor(St, "m1", <<10, 0, 0>>, MaxDepth), "setColor", <<"m1">>, <<10, 0, 0>>)

\* setUnclippable(id)
SetUnclippable == Apply(setClippable(St, "T", FALSE, MaxDepth), "setUnclippable", <<"T">>, FALSE)

\* setUnpickable(id)
SetUnpickable == Apply(setPickable(St, "T", FALSE, MaxDepth), "setUnpickable", <<"T">>, FALSE)

\* showOutline(id)
ShowOutline == Apply(setOutline(St, "T", TRUE, MaxDepth), "showOutline", <<"T">>, TRUE)

\* models, types and the operations that resolve an ID to objects; no model is destroyed
NextOps ==
    \/ LoadModel \/ Loaded \/ SetTypeOther
    \/ Hide \/ SetOpacity \/ SetColor \/ SetUnclippable \/ SetUnpickable \/ ShowOutline

SpecOps == Init /\ [][NextOps]_vars

\* the list a batch call on transforms is given
XfBatchIds == <<"m1#1", Unknown, "m1">>

\* hide(list)
BatchHide == Apply(hideEach(St, BatchIds), "hide", BatchIds, FALSE)

\* setScale(list, [2, 2, 2])
BatchSetScale ==
    Apply(setScaleEach(St, XfBatchIds, 1, <<2, 2, 2>>), "setScale", XfBatchIds, <<2, 2, 2>>)

\* addTranslate(list, [1, 0, 0]), while no coordinate has reached MaxCoord
BatchAddTranslate ==
    /\ \A id \in DOMAIN translations : FGet(translations, id)[1] < MaxCoord
    /\ Apply(addTranslateEach(St, XfBatchIds, 1, <<1, 0, 0>>), "addTranslate", XfBatchIds, <<1, 0, 0>>)

\* getObjects(list)
BatchGetObjects ==
    Apply(Return(IF \E i \in 1..Len(BatchIds) : getObjectsErr(St, BatchIds[i])
                 THEN error(St) ELSE St,
                 getObjectsList(St, BatchIds)), "getObjects", BatchIds, Undef)

\* models, and the calls that take a list of IDs
NextBatch ==
    \/ LoadModel \/ Loaded
    \/ BatchHide \/ BatchGetObjects \/ BatchSetScale \/ BatchAddTranslate

SpecBatch == Init /\ [][NextBatch]_vars

\* the configurations the create calls are given
ClipCfg == [pos |-> <<0, 0, 0>>, dir |-> <<0, 0, -10>>, active |-> TRUE, shown |-> FALSE]
AnnotationCfg(object) == [object |-> object, primIndex |-> 0]

\* loadModel with the ID of a light
LoadModelAsLight == Apply(loadModel(St, "light0", "a"), "loadModel", <<"light0">>, "a")

\* createLight(id, cfg), the ID new or that of a model
CreateLight ==
    \E id \in {"l9", "m1"} :
        Apply(createLight(St, id, LightCfg("dir", <<0, 0, -10>>, White)), "createLight", <<id>>, Undef)

\* createClip(id, cfg), the ID new or that of a light
CreateClip ==
    \E id \in {"c1", "light0"} : Apply(createClip(St, id, ClipCfg), "createClip", <<id>>, Undef)

\* createAnnotation(id, cfg), the ID new or that of a clip
CreateAnnotation ==
    \E id \in {"a1", "c1"} :
        Apply(createAnnotation(St, id, AnnotationCfg("m1#1")), "createAnnotation", <<id>>, Undef)

\* models, lights, clips and annotations, created under new IDs and under IDs in use
NextNames ==
    \/ LoadModel \/ LoadModelB \/ Loaded \/ LoadModelAsLight
    \/ CreateLight \/ CreateClip \/ CreateAnnotation

SpecNames == Init /\ [][NextNames]_vars

\* setScale(id, [2, 2, 2]) of a model or an object
SetScale ==
    \E id \in {"m1", "m1#1"} : Apply(setScale(St, id, <<2, 2, 2>>), "setScale", <<id>>, <<2, 2, 2>>)

\* getScale(id)
GetScale == \E id \in {"m1", "m1#1"} : Apply(getScale(St, id), "getScale", <<id>>, Undef)

\* setRotate(id, [0, 180, 0])
SetRotate == Apply(setRotate(St, "m1#1", <<0, 180, 0>>), "setRotate", <<"m1#1">>, <<0, 180, 0>>)

\* getRotate(id)
GetRotate == Apply(getRotate(St, "m1#1"), "getRotate", <<"m1#1">>, Undef)

\* setTranslate(id, [1, 0, 0])
SetTranslate == Apply(setTranslate(St, "m1#1", <<1, 0, 0>>), "setTranslate", <<"m1#1">>, <<1, 0, 0>>)

\* addTranslate(id, [1, 0, 0]), while no coordinate has reached MaxCoord
AddTranslate ==
    /\ \A id \in DOMAIN translations : FGet(translations, id)[1] < MaxCoord
    /\ Apply(addTranslate(St, "m1#1", <<1, 0, 0>>), "addTranslate", <<"m1#1">>, <<1, 0, 0>>)

\* getTranslate(id)
GetTranslate == Apply(getTranslate(St, "m1#1"), "getTranslate", <<"m1#1">>, Undef)

\* models and the transforms of models and objects
NextXf ==
    \/ LoadModel \/ Loaded
    \/ SetScale \/ GetScale \/ SetRotate \/ GetRotate
    \/ SetTranslate \/ AddTranslate \/ GetTranslate

SpecXf == Init /\ [][NextXf]_vars

\* models, types and visibility
NextShow == LoadModel \/ Loaded \/ DestroyModel \/ SetType \/ HideShow

SpecShow == Init /\ [][NextShow]_vars

\* a box given to getAABB in a list
InlineBox == <<-5, 0, 0, 5, 9, 1>>

\* the entries of the lists given to getAABB: IDs of a model, of an object, of a type, of
\* a light, two IDs that denote nothing, and a box
AABBEntries ==
    {IdEntry(id) : id \in {"m1", "m1#1", "T", "light1", "zz", "yy"}}
    \cup {BoxEntry(InlineBox)}

AABBLists == UNION {[1..n -> AABBEntries] : n \in 0..MaxList}

\* getAABB(target), target left out, an ID, a box or a list
GetAABB ==
    \E target \in {NoTarget, BoxTarget(InlineBox)}
                  \cup {IdTarget(e.id) : e \in AABBEntries \ {BoxEntry(InlineBox)}}
                  \cup {ListTarget(list) : list \in AABBLists} :
        Apply(getAABB(St, target), "getAABB", <<>>, target.kind)

\* models, types and boundaries
NextAABB == LoadModel \/ Loaded \/ SetType \/ GetAABB

SpecAABB == Init /\ [][NextAABB]_vars

\* ------------------------------------------------------------------------
\* Bookmarks: the steps
\* ------------------------------------------------------------------------

\* a document written by hand: two models, an object with every override, a clip, an
\* annotation and a camera pose
Document ==
    [models |-> << [id |-> "m1", src |-> "a", translate |-> UndefVec, scale |-> <<1, 1, 2>>,
                    rotate |-> UndefVec],
                   [id |-> "m2", src |-> "c", translate |-> <<0, 1, 0>>, scale |-> UndefVec,
                    rotate |-> UndefVec] >>,
     objects |-> << [id |-> "m1#1", translate |-> <<0, 0, 1>>, scale |-> UndefVec,
                     rotate |-> <<0, 180, 0>>, visible |-> FALSE, opacity |-> 50,
                     outlined |-> TRUE, clippable |-> <<FALSE>>, pickable |-> <<FALSE>>] >>,
     annotations |-> << [id |-> "a1", object |-> "m2#1", primIndex |-> 0] >>,
     clips |-> << [id |-> "c1", pos |-> <<0, 0, 0>>, dir |-> <<0, 0, -10>>, active |-> FALSE,
                   shown |-> TRUE] >>,
     lights |-> <<>>,
     eye |-> <<5, 5, 5>>, look |-> <<1, 0, 0>>, up |-> <<0, 0, 1>>]

\* setBookmark has not been called
Idle == restore.phase = "idle"

\* setBookmark(bookmark, ok) with the document getBookmark() returns, or with Document
SetBookmark ==
    /\ restore.phase = "idle"
    /\ \E bookmark \in {getBookmark(St), Document} :
        LET r == setBookmark(St, bookmark)
        IN /\ Write(Return(r, Undef), "setBookmark", <<>>, Undef)
           /\ restore' = RestoreAfter(r, bookmark)
           /\ UNCHANGED continuations

\* the load the restore waits for completes: "loaded" fires and calls ok
RestoreLoaded ==
    \E l \in loading :
        /\ Awaited(l)
        /\ LET r == modelLoaded(onLoaded(St, l), restore.bookmark, restore.waiting)
           IN /\ Write(Return(r, Undef), "loaded", <<l.id>>, Undef)
              /\ restore' = RestoreAfter(r, restore.bookmark)
              /\ UNCHANGED continuations

\* the load the restore waits for fails: the error callback given to cfg.loadModel calls
\* ok; without cfg.loadModel nothing is called
RestoreLoadError ==
    \E l \in loading :
        /\ Awaited(l)
        /\ LET s1 == onLoadError(St, l)
               r == IF cfgLoadModel THEN modelLoaded(s1, restore.bookmark, restore.waiting)
                    ELSE Return(s1, restore.waiting)
           IN /\ Write(Return(r, Undef), "loadError", <<l.id>>, Undef)
              /\ restore' = RestoreAfter(r, restore.bookmark)
              /\ UNCHANGED continuations

\* setScale(id, [1, 1, 2]) of a model or an object
SetScaleZ ==
    \E id \in {"m1", "m1#1"} :
        Idle /\ Apply(setScale(St, id, <<1, 1, 2>>), "setScale", <<id>>, <<1, 1, 2>>)

\* setUp(up)
SetUp == Idle /\ Apply(setUp(St, <<0, 0, 1>>), "setUp", <<>>, <<0, 0, 1>>)

\* loadModel, and the completion of a load no restore waits for
LoadModelIdle == Idle /\ LoadModel
LoadedIdle == Idle /\ Loaded

\* the viewer is configured with cfg.loadModel or without
InitAnyLoader == \E customLoader \in BOOLEAN : InitWith(customLoader)

\* models, transforms, the camera, and one restore
NextBookmark ==
    \/ LoadModelIdle \/ LoadedIdle \/ SetScaleZ \/ SetUp
    \/ SetBookmark \/ RestoreLoaded \/ RestoreLoadError

SpecBookmark == InitAnyLoader /\ [][NextBookmark]_vars

\* the load the restore waits for signals its completion or its failure: it leaves the
\* loads in flight, and the restore may have issued the load of its next model
Signals ==
    \E l \in loading :
        /\ Awaited(l)
        /\ \E next \in {{}} \cup {{[id |-> in[1], src |-> in[2], inst |-> Live]} : in \in LoadInputs} :
               loading' = (loading \ {l}) \cup next

\* every load a restore waits for signals in the end its completion or its failure
SpecBookmarkFair == SpecBookmark /\ WF_loading(Signals)

\* hide(id) of an object
HideObject ==
    \E id \in {"m1#1", "m2#1"} : Idle /\ Apply(hide(St, id), "hide", <<id>>, FALSE)

\* setOpacity(id, opacity) of an object, opacity 0.5 or 0
SetOpacityObject ==
    \E opacity \in {50, 0} :
        Idle /\ Apply(setOpacity(St, "m1#1", opacity, MaxDepth), "setOpacity", <<"m1#1">>, opacity)

\* setColor(id, [1, 0, 0]) of an object
SetColorObject ==
    Idle /\ Apply(setColor(St, "m1#1", <<10, 0, 0>>, MaxDepth), "setColor", <<"m1#1">>, <<10, 0, 0>>)

\* setUnclippable(id) of an object
SetUnclippableObject ==
    Idle /\ Apply(setClippable(St, "m1#2", FALSE, MaxDepth), "setUnclippable", <<"m1#2">>, FALSE)

\* setUnpickable(id) of an object
SetUnpickableObject ==
    Idle /\ Apply(setPickable(St, "m1#2", FALSE, MaxDepth), "setUnpickable", <<"m1#2">>, FALSE)

\* showOutline(id) of an object
ShowOutlineObject == Idle /\ Apply(showOutline(St, "m2#1"), "showOutline", <<"m2#1">>, TRUE)

\* models, the rendering state of objects, and one restore
NextBookmarkObjects ==
    \/ LoadModelIdle \/ LoadedIdle
    \/ HideObject \/ SetOpacityObject \/ SetColorObject
    \/ SetUnclippableObject \/ SetUnpickableObject \/ ShowOutlineObject
    \/ SetBookmark \/ RestoreLoaded

SpecBookmarkObjects == Init /\ [][NextBookmarkObjects]_vars

\* createClip("c1", cfg), the clip active or not, its helper shown or not
CreateClipIdle ==
    \E active \in BOOLEAN, shown \in BOOLEAN :
        Idle /\ Apply(createClip(St, "c1", [ClipCfg EXCEPT !.active = active, !.shown = shown]),
                      "createClip", <<"c1">>, Undef)

\* models, clips, and one restore
NextBookmarkClips == LoadModelIdle \/ LoadedIdle \/ CreateClipIdle \/ SetBookmark \/ RestoreLoaded

SpecBookmarkClips == Init /\ [][NextBookmarkClips]_vars

\* createLight("p1", cfg) of a point light
CreatePointLight ==
    Apply(createLight(St, "p1", [LightCfg("point", UndefVec, White) EXCEPT !.pos = <<0, 0, 0>>]),
          "createLight", <<"p1">>, Undef)

\* the IDs the light setters are called with one by one: an ambient light, a directional
\* light, a point light, a clip, and an ID that denotes nothing
LightIds == {"light0", "light1", "p1", "c1", Unknown}

\* the list the light setters are called with: lights of each type, and an ID that denotes
\* nothing
LightList == <<"light0", Unknown, "p1", "light1">>

\* setPos(id, [4, 5, 6]) and setPos(list, [1, 2, 3])
SetPos ==
    \/ \E id \in LightIds : Apply(setPos(St, id, <<4, 5, 6>>), "setPos", <<id>>, <<4, 5, 6>>)
    \/ Apply(setPosEach(St, LightList, 1, <<1, 2, 3>>), "setPos", LightList, <<1, 2, 3>>)

\* setDir(id, [0, 1, 0]) and setDir(list, [1, 0, 0])
SetDir ==
    \/ \E id \in LightIds : Apply(setDir(St, id, <<0, 10, 0>>), "setDir", <<id>>, <<0, 10, 0>>)
    \/ Apply(setDirEach(St, LightList, 1, <<10, 0, 0>>), "setDir", LightList, <<10, 0, 0>>)

\* setSpace(id, space) and setSpace(list, "world")
SetSpace ==
    \/ \E id \in LightIds, space \in {"world", "view", "screen"} :
           Apply(setSpace(St, id, space), "setSpace", <<id>>, space)
    \/ Apply(setSpaceEach(St, LightList, 1, "world"), "setSpace", LightList, "world")

\* lights, a clip, and the setters of lights
NextLights == CreatePointLight \/ CreateClipIdle \/ SetPos \/ SetDir \/ SetSpace

SpecLights == Init /\ [][NextLights]_vars

\* ------------------------------------------------------------------------
\* Hooks: the steps
\* ------------------------------------------------------------------------

\* the viewer is configured with cfg.unloadedModel, and with cfg.loadedModel or without
InitHooks ==
    \E hook \in BOOLEAN :
        Start(defaultLights([NewViewer(FALSE) EXCEPT !.cfgLoadedModel = hook,
                                                     !.cfgUnloadedModel = TRUE]))

\* loadModel("m1", src, ok), src "a" or "b"
LoadModelOk ==
    \E in \in {<<"m1", "a">>, <<"m1", "b">>} :
        Apply(loadModelOk(St, in[1], in[2]), "loadModel", <<in[1]>>, in[2])

\* the loads for which the calls made are loadedModel(id, src, continuation)
Hooked(calls, l) ==
    IF \E i \in 1..Len(calls) : calls[i].fn = "loadedModel" /\ calls[i].id = l.id
                                /\ calls[i].src = l.src
    THEN {l} ELSE {}

\* a load that loadModel(id, src, ok) issued completes; loadedModel keeps the
\* continuation it is given
LoadedOk ==
    \E l \in loading :
        /\ l.inst = Stale => staleDone < MaxStale
        /\ LET r == signalLoaded(onLoaded(St, l), l)
           IN /\ Write(r, "loaded", <<l.id>>, Undef)
              /\ continuations' = continuations \cup Hooked(r.calls, l)
              /\ UNCHANGED restore

\* loadedModel, or what it started, calls a continuation it was given
Continue ==
    \E c \in continuations :
        /\ Write(continue(St, c), "continue", <<c.id>>, Undef)
        /\ continuations' = continuations \ {c}
        /\ UNCHANGED restore

\* loads with ok, the hooks, and destroy of a model
NextHooks == LoadModelOk \/ LoadedOk \/ Continue \/ DestroyModel

SpecHooks == InitHooks /\ [][NextHooks]_vars

\* the viewer is configured with cfg.unloadedModel only
InitUnload == Start(defaultLights([NewViewer(FALSE) EXCEPT !.cfgUnloadedModel = TRUE]))

\* models loaded, replaced and destroyed
NextUnload == LoadModel \/ LoadModelB \/ Loaded \/ DestroyModel

SpecUnload == InitUnload /\ [][NextUnload]_vars

\* ------------------------------------------------------------------------
\* Events: the steps
\* ------------------------------------------------------------------------

\* the number of subscriptions made in one run
MaxSubs == 3

Events == {"picked", "moved", "idle"}
Callbacks == {"f", "g"}
Values == {1, 2}

\* the number of callbacks subscribed, all events together
RECURSIVE Subscribed(_, _)
Subscribed(subs, i) == IF i > Len(subs) THEN 0 ELSE Len(subs[i][2]) + Subscribed(subs, i + 1)

\* on(event, callback); nothing subscribes to "idle"
On ==
    \E event \in {"picked", "moved"}, callback \in Callbacks :
        /\ Subscribed(eventSubs, 1) < MaxSubs
        /\ Apply(on(St, event, callback), "on", <<event>>, callback)

\* fire(event, value)
Fire ==
    \E event \in Events, value \in Values :
        Apply(fire(St, event, value), "fire", <<event>>, value)

NextEvents == On \/ Fire

SpecEvents == Init /\ [][NextEvents]_vars

\* ------------------------------------------------------------------------
\* Ticks: the steps
\* ------------------------------------------------------------------------

\* the scene fires "tick" while onTick is subscribed
Tick == ticking /\ Apply(onTick(St), "tick", <<>>, Undef)

\* destroy(id) of a clip or of a light
DestroyComponent ==
    \E id \in {"c1", "p1", "light1"} :
        /\ Has(clips, id) \/ Has(lights, id)
        /\ Apply(destroy(St, id), "destroy", <<id>>, Undef)

\* destroy(): scene.destroy() is code of xeogl, which may empty the lists of the scene it
\* destroys or leave them as they are
DestroyAll ==
    \E emptied \in BOOLEAN :
        LET r == destroy(St, Undef)
        IN /\ ticking
           /\ Apply(IF emptied THEN [r EXCEPT !.sceneClips = <<>>, !.sceneLights = <<>>] ELSE r,
                    "destroy", <<>>, Undef)

\* clips and lights created and destroyed between ticks, and the end of the viewer
NextTicks == CreateClipIdle \/ CreatePointLight \/ DestroyComponent \/ Tick \/ DestroyAll

SpecTicks == Init /\ [][NextTicks]_vars

\* ------------------------------------------------------------------------
\* Annotations: the steps
\* ------------------------------------------------------------------------

\* createAnnotation(id, cfg) on an object of m1
CreateAnnotationOn ==
    \E id \in {"a1", "a2"}, object \in {"m1#1", "m1#2"} :
        Apply(createAnnotation(St, id, AnnotationCfg(object)), "createAnnotation", <<id>>, object)

\* setAnnotationObject("a1", objectId)
SetAnnotationObject ==
    \E object \in ObjectIds :
        Apply(setAnnotationObject(St, "a1", object), "setAnnotationObject", <<"a1">>, object)

\* destroy(id) of an annotation
DestroyAnnotation ==
    \E id \in {"a1", "a2"} :
        /\ Has(annotations, id)
        /\ Apply(destroy(St, id), "destroy", <<id>>, Undef)

\* annotations created, pinned to another object and destroyed
NextAnnotations ==
    LoadModel \/ Loaded \/ CreateAnnotationOn \/ SetAnnotationObject \/ DestroyAnnotation

SpecAnnotations == Init /\ [][NextAnnotations]_vars

\* getAnnotationObject(id)
GetAnnotationObject ==
    \E id \in {"a1", "a2"} :
        Apply(getAnnotationObject(St, id), "getAnnotationObject", <<id>>, Undef)

\* annotations on the objects of models that are destroyed and loaded again
NextPins ==
    LoadModel \/ Loaded \/ DestroyModel \/ CreateAnnotationOn \/ GetAnnotationObject

SpecPins == Init /\ [][NextPins]_vars

\* ------------------------------------------------------------------------
\* Properties
\* ------------------------------------------------------------------------

\* the model registered as m has fired "loaded"
LoadedModel(S, m) == Has(S.models, m) /\ Get(S.models, m).loaded

\* the objects whose objectModels entry is the model registered as m
OwnedBy(S, m) ==
    {o \in KeySet(S.objects) :
        FHas(S.objectModels, o) /\ FGet(S.objectModels, o) = Live /\ ModelOfId(o) = m}

\* no load of a destroyed instance of m is in flight
NoStaleLoad(S, m) == \A l \in S.loading : l.id = m => l.inst = Live

NoDuplicates(s) == Cardinality(SeqToSet(s)) = Len(s)

\* C1: for every loaded model m whose ID is neither an object ID nor a type tag, whatever
\* loadModel, setType, hide/show and destroy did to other entities, getObjects(m) returns
\* exactly the IDs of the objects m owns, each once
C1_GetObjectsOfModel ==
    \A m \in ModelIds :
        (LoadedModel(St, m) /\ NoStaleLoad(St, m) /\ ~Has(objects, m) /\ ~FHas(types, m))
        => /\ SeqToSet(getObjects(St, m)) = OwnedBy(St, m)
           /\ NoDuplicates(getObjects(St, m))

\* m1 and m2 are loaded, an object of m1 has been given the type "T", and getObjects("m1")
\* is asked after the other model was hidden, retyped or destroyed
C1_Witness ==
    /\ LoadedModel(St, "m1") /\ NoStaleLoad(St, "m1") /\ ~FHas(types, "m1")
    /\ LoadedModel(St, "m2")
    /\ FHas(types, "T") /\ Contains(FGet(types, "T"), "m1#2")
    /\ last.op = "setType"
    /\ Len(getObjects(St, "m1")) = 2

\* the type tags the properties range over: those the steps use, the default, and one
\* that is also the ID of an object
TagInputs == TypeTags \cup {"DEFAULT", "m1#1"}

\* setType(o, T) then setType(o, T2) from the state S
SetTypeTwice(S, o, T, T2) ==
    LET S1 == setType(S, o, T)
        S2 == setType(S1, o, T2)
    IN /\ Contains(getObjects(S1, T), o)
       /\ ~Contains(getObjects(S2, T), o)
       /\ Contains(getObjects(S2, T2), o)
       /\ setType(S1, o, T) = S1
       /\ (getType(S, o) = "DEFAULT" => setType(S, o, Undef) = S)

\* C2: for every registered object o and type tags T # T2, neither the ID of a registered
\* object: after setType(o, T) getObjects(T) includes o; after setType(o, T2) getObjects(T)
\* does not include o and getObjects(T2) does; setType(o, T) of an object of type T, and an
\* omitted type for a "DEFAULT" object, change nothing
C2_SetTypeMoves ==
    \A o \in KeySet(objects), T \in TagInputs, T2 \in TagInputs :
        (T # T2 /\ ~Has(objects, T) /\ ~Has(objects, T2)) => SetTypeTwice(St, o, T, T2)

\* C2 as stated: the same for every pair of type tags T # T2
C2_SetTypeMovesAnyTag ==
    \A o \in KeySet(objects), T \in TagInputs, T2 \in TagInputs :
        T # T2 => SetTypeTwice(St, o, T, T2)

\* m2#1 was given the type "T" and then the type "m1"
C2_Witness ==
    /\ last.op = "setType"
    /\ FHas(types, "T") /\ ~Contains(FGet(types, "T"), "m2#1")
    /\ FHas(types, "m1") /\ Contains(FGet(types, "m1"), "m2#1")
    /\ Has(objects, "m2#1") /\ getType(St, "m2#1") = "m1"
    /\ Len(FGet(types, "T")) = 0

\* the lists of at most MaxList elements of the set ids
Lists(ids) == UNION {[1..n -> ids] : n \in 0..MaxList}

\* what a caller can name in the state S: object IDs, type tags, model IDs, an unknown ID
Names(S) == ObjectIds \cup (DOMAIN S.types) \cup TypeTags \cup ModelIds \cup {Unknown}

\* the transform entries of the ID o
HasTransformEntry(S, o) ==
    \/ FHas(S.scales, o) \/ FHas(S.rotations, o) \/ FHas(S.translations, o)
    \/ FHas(S.eulerAngles, o) \/ FHas(S.transformable, o)

\* C3: after destroy(m) of a loaded model m, none of m's former objects is in a type
\* bucket, in getObjects() or in getObjects of a type or list, none has a transform entry
\* left, and getObjects(m) reports not-found and returns the empty list (m not a type tag)
C3_DestroyModelCascade ==
    \A m \in ModelIds :
        LoadedModel(St, m) =>
            LET former == SeqToSet(Get(models, m).entities)
                S1 == destroy(St, m)
            IN /\ \A t \in DOMAIN S1.types : SeqToSet(FGet(S1.types, t)) \cap former = {}
               /\ SeqToSet(getObjects(S1, Undef)) \cap former = {}
               /\ \A ids \in Lists(Names(S1)) :
                      SeqToSet(getObjectsList(S1, ids)) \cap former = {}
               /\ \A o \in former : ~HasTransformEntry(S1, o)
               /\ ~FHas(types, m) => (getObjects(S1, m) = <<>> /\ getObjectsErr(S1, m))

RECURSIVE Expansion(_, _, _)
\* the left-to-right expansion of the list ids from index i on: what getObjects returns
\* for each element, one after the other
Expansion(S, ids, i) ==
    IF i > Len(ids) THEN <<>> ELSE getObjects(S, ids[i]) \o Expansion(S, ids, i + 1)

RECURSIVE FirstOccurrences(_, _)
\* the elements of s at the positions, from i on, where an element occurs for the first time
FirstOccurrences(s, i) ==
    IF i > Len(s) THEN <<>>
    ELSE (IF \E j \in 1..(i - 1) : s[j] = s[i] THEN <<>> ELSE <<s[i]>>)
         \o FirstOccurrences(s, i + 1)

\* C5: for every list of object IDs, type tags and model IDs, with repeats and overlaps,
\* getObjects(list) returns each resolved object ID once, in the order of the first
\* occurrences in the left-to-right expansion of the list
C5_GetObjectsList ==
    \A ids \in Lists(Names(St)) :
        /\ getObjectsList(St, ids) = FirstOccurrences(Expansion(St, ids, 1), 1)
        /\ NoDuplicates(getObjectsList(St, ids))

\* getObjects of a list whose expansion names m1#2 twice (by its type or its ID, and by
\* its model) returned it once, before m1#1
C5_Witness ==
    /\ last.op = "getObjects"
    /\ last.ret = <<"m1#2", "m1#1">>
    /\ LoadedModel(St, "m1")

\* the registered objects whose entity is not in S2 what it is in S
Changed(S, S2) == {o \in KeySet(S.objects) : Entity(S, o) # Entity(S2, o)}

\* S2 differs from S in entities and in what was logged, and in nothing else
OnlyEntities(S, S2) == [S2 EXCEPT !.entState = S.entState, !.err = S.err] = S

\* the objects a setter writes, found by calling it with two different values
WrittenBy(S, S2, S3) == Changed(S, S2) \cup Changed(S, S3)

\* C4: for every string id that is not a light or clip ID, the objects changed by
\* hide/show(id), setOpacity(id, v), setColor(id, c), setClippable/setUnclippable(id),
\* setPickable/setUnpickable(id) and showOutline/hideOutline(id) are exactly the objects
\* getObjects(id) returns, also when id is both a type tag and a model ID
C4_SamePrecedence ==
    \A id \in Names(St) :
        LET got == SeqToSet(getObjects(St, id))
            Same(S2, S3) ==
                /\ WrittenBy(St, S2, S3) = got
                /\ OnlyEntities(St, S2) /\ OnlyEntities(St, S3)
        IN /\ Same(hide(St, id), show(St, id))
           /\ Same(setOpacity(St, id, 50, MaxDepth), setOpacity(St, id, 30, MaxDepth))
           /\ Same(setColor(St, id, <<10, 0, 0>>, MaxDepth), setColor(St, id, <<0, 10, 0>>, MaxDepth))
           /\ Same(setClippable(St, id, TRUE, MaxDepth), setClippable(St, id, FALSE, MaxDepth))
           /\ Same(setPickable(St, id, TRUE, MaxDepth), setPickable(St, id, FALSE, MaxDepth))
           /\ Same(setOutline(St, id, TRUE, MaxDepth), setOutline(St, id, FALSE, MaxDepth))

\* "m1" is a loaded model and the type of m2#1; setOpacity("m1", 0.5) changed m2#1 and
\* left the objects of the model m1 as they were
C4_Witness ==
    /\ last.op = "setOpacity"
    /\ LoadedModel(St, "m1") /\ FHas(types, "m1") /\ FGet(types, "m1") = <<"m2#1">>
    /\ Entity(St, "m2#1").opacity = 50
    /\ Entity(St, "m1#1").opacity = OpacityOne /\ Entity(St, "m1#2").opacity = OpacityOne

\* the lists of at most MaxBatch of these IDs in which the unknown ID occurs
BatchLists ==
    {ids \in UNION {[1..n -> {"m1#1", "m1", Unknown}] : n \in 1..MaxBatch} :
        \E i \in 1..Len(ids) : ids[i] = Unknown}

\* the list without its unknown entries
Resolvable(ids) == SelectSeq(ids, LAMBDA id : id # Unknown)

\* how often id occurs in ids
Occurrences(ids, id) == Cardinality({i \in 1..Len(ids) : ids[i] = id})

\* R is what a batch call made of S, F what the call without the unknown entries makes:
\* they differ in the error logged, the call returned, and every object the list resolves
\* to has the field at the value v
AppliedToObjects(S, R, F, ids, field, v) ==
    /\ R = [F EXCEPT !.err = TRUE] /\ ~R.crash
    /\ \A i \in 1..Len(ids) : \A o \in SeqToSet(getObjects(S, ids[i])) : Entity(R, o)[field] = v

\* the same for a transform setter: every model or object of the list has the entry v(id)
AppliedToStacks(S, R, F, ids, entries(_), v(_)) ==
    /\ R = [F EXCEPT !.err = TRUE] /\ ~R.crash
    /\ \A i \in 1..Len(ids) : HasComponent(S, ids[i]) => FGet(entries(R), ids[i]) = v(ids[i])

\* the translation of id in S, [0, 0, 0] when S has none
TranslationIn(S, id) == IF FHas(S.translations, id) THEN FGet(S.translations, id) ELSE DefaultTranslate

\* C6: getObjects, hide/show, setOpacity, setColor, setScale, setRotate, setTranslate and
\* addTranslate, given a list with entries that resolve to nothing, do to every other entry,
\* before and after, what they do without the unresolved entries, and change nothing else;
\* called with one unknown ID they change nothing and return
C6_UnresolvedEntriesSkipped ==
    /\ \A ids \in BatchLists :
        LET ok == Resolvable(ids) IN
        /\ getObjectsList(St, ids) = getObjectsList(St, ok)
        /\ AppliedToObjects(St, hideEach(St, ids), hideEach(St, ok), ids, "visible", FALSE)
        /\ AppliedToObjects(St, showEach(St, ids), showEach(St, ok), ids, "visible", TRUE)
        /\ AppliedToObjects(St, setOpacityEach(St, ids, 1, 50, MaxDepth),
                            setOpacityEach(St, ok, 1, 50, MaxDepth), ids, "opacity", 50)
        /\ AppliedToObjects(St, setColorEach(St, ids, 1, <<10, 0, 0>>, MaxDepth),
                            setColorEach(St, ok, 1, <<10, 0, 0>>, MaxDepth), ids, "color", <<10, 0, 0>>)
        /\ AppliedToStacks(St, setScaleEach(St, ids, 1, <<2, 3, 4>>),
                           setScaleEach(St, ok, 1, <<2, 3, 4>>), ids,
                           LAMBDA S : S.scales, LAMBDA id : <<2, 3, 4>>)
        /\ AppliedToStacks(St, setRotateEach(St, ids, 1, <<0, 180, 0>>),
                           setRotateEach(St, ok, 1, <<0, 180, 0>>), ids,
                           LAMBDA S : S.eulerAngles, LAMBDA id : <<0, 180, 0>>)
        /\ AppliedToStacks(St, setTranslateEach(St, ids, 1, <<1, 2, 3>>),
                           setTranslateEach(St, ok, 1, <<1, 2, 3>>), ids,
                           LAMBDA S : S.translations, LAMBDA id : <<1, 2, 3>>)
        /\ AppliedToStacks(St, addTranslateEach(St, ids, 1, <<1, 0, 0>>),
                           addTranslateEach(St, ok, 1, <<1, 0, 0>>), ids,
                           LAMBDA S : S.translations,
                           LAMBDA id : <<TranslationIn(St, id)[1] + Occurrences(ids, id),
                                         TranslationIn(St, id)[2], TranslationIn(St, id)[3]>>)
    /\ getObjects(St, Unknown) = <<>>
    /\ hide(St, Unknown) = error(St) /\ show(St, Unknown) = error(St)
    /\ setOpacity(St, Unknown, 50, MaxDepth) = error(St)
    /\ setColor(St, Unknown, <<10, 0, 0>>, MaxDepth) = error(St)
    /\ setScale(St, Unknown, <<2, 3, 4>>) = error(St)
    /\ setRotate(St, Unknown, <<0, 180, 0>>) = error(St)
    /\ setTranslate(St, Unknown, <<1, 2, 3>>) = error(St)
    /\ addTranslate(St, Unknown, <<1, 0, 0>>) = error(St)

\* hide(["m1#1", unknown, "m2#1"]) logged an error and hid the objects before and after
\* the unknown entry
C6_Witness ==
    /\ last.op = "hide" /\ last.err /\ ~last.crash
    /\ Has(objects, "m1#1") /\ ~Entity(St, "m1#1").visible
    /\ Has(objects, "m2#1") /\ ~Entity(St, "m2#1").visible
    /\ Entity(St, "m1#2").visible

\* id is the ID of a model, object, light, clip or annotation
Denotes(S, id) ==
    \/ Has(S.models, id) \/ Has(S.objects, id) \/ Has(S.lights, id)
    \/ Has(S.clips, id) \/ Has(S.annotations, id)

\* the call that made R of S registered nothing and changed nothing
NothingChanged(S, R) == [R EXCEPT !.err = S.err] = S

\* the IDs the create calls are tried with
NameInputs == ModelIds \cup ObjectIds \cup {"light0", "l9", "c1", "a1"}

\* createAnnotation, createClip and createLight with the ID id change nothing
CreateChangesNothing(S, id) ==
    /\ NothingChanged(S, createAnnotation(S, id, AnnotationCfg("m1#1")))
    /\ NothingChanged(S, createClip(S, id, ClipCfg))
    /\ NothingChanged(S, createLight(S, id, LightCfg("dir", <<0, 0, -10>>, White)))

Product(a, b) == [k \in 1..3 |-> a[k] * b[k]]

\* the scale set for id, [1, 1, 1] when none was
ScaleIn(S, id) == IF FHas(S.scales, id) THEN FGet(S.scales, id) ELSE DefaultScale

\* C8: after any sequence of transform setters and getters on a model M and on an object O
\* of M, in any order, the effective scale of O is the component-wise product of O's own
\* scale and M's current scale, and a later setScale(M, v) changes the effective scale of
\* every object of M
C8_LiveComposition ==
    \A m \in ModelIds :
        LoadedModel(St, m) =>
            \A o \in OwnedBy(St, m) :
                /\ EffectiveScale(St, o) = Product(ScaleIn(St, o), ScaleIn(St, m))
                /\ EffectiveScale(setScale(St, m, <<3, 3, 3>>), o) = Product(ScaleIn(St, o), <<3, 3, 3>>)

\* the entry of id in a registry, as a list of none or one
EntryOf(map, id) == IF FHas(map, id) THEN <<FGet(map, id)>> ELSE <<>>

\* the transform entries of id and the chain its transform ends in
StackOf(S, id) ==
    <<EntryOf(S.scales, id), EntryOf(S.rotations, id), EntryOf(S.translations, id),
      EntryOf(S.eulerAngles, id), EntryOf(S.transformable, id), EntryOf(S.xfParent, id),
      IF Has(S.models, id) THEN <<Get(S.models, id).built>> ELSE <<>> >>

\* what the three getters return for id
Got(S, id) == <<getScale(S, id).ret, getRotate(S, id).ret, getTranslate(S, id).ret>>

\* the call on the object o that made R of S changed no entry, no chain and no getter's
\* value of the models and of the other objects
OthersUnchanged(S, R, o) ==
    /\ ~R.crash
    /\ \A x \in (KeySet(S.models) \cup KeySet(S.objects)) \ {o} :
           StackOf(R, x) = StackOf(S, x) /\ Got(R, x) = Got(S, x)

\* C9: setScale, setRotate, setTranslate and addTranslate on an object O change the scale,
\* the rotation, the translation of O and nothing else: what getScale, getRotate and
\* getTranslate return for O's model and for every other object, and the transform chains
\* of the model and of the other objects, stay as they were
C9_OnlyOwnEntry ==
    \A o \in KeySet(objects) :
        LET s == setScale(St, o, <<2, 3, 4>>)
            r == setRotate(St, o, <<180, 0, 360>>)
            t == setTranslate(St, o, <<1, 2, 3>>)
            a == addTranslate(St, o, <<1, 2, 3>>)
        IN /\ OthersUnchanged(St, s, o) /\ OthersUnchanged(St, r, o)
           /\ OthersUnchanged(St, t, o) /\ OthersUnchanged(St, a, o)
           /\ Got(s, o)[2] = Got(St, o)[2] /\ Got(s, o)[3] = Got(St, o)[3]
           /\ Got(r, o)[1] = Got(St, o)[1] /\ Got(r, o)[3] = Got(St, o)[3]
           /\ Got(t, o)[1] = Got(St, o)[1] /\ Got(t, o)[2] = Got(St, o)[2]
           /\ Got(a, o)[1] = Got(St, o)[1] /\ Got(a, o)[2] = Got(St, o)[2]

\* setScale("m1#1", [2, 2, 2]) was called when the chain of the model m1 had been built:
\* the scale of m1 is [1, 1, 1] and the other object of m1 has no transform entries
C9_Witness ==
    /\ last.op = "setScale"
    /\ FHas(scales, "m1#1") /\ FGet(scales, "m1#1") = <<2, 2, 2>>
    /\ FHas(scales, "m1") /\ FGet(scales, "m1") = DefaultScale
    /\ Has(objects, "m1#2") /\ ~FHas(scales, "m1#2")

\* every getter, in any order, returns the default for id
DefaultsGot(S, id) ==
    LET g1 == getScale(S, id)
        g2 == getRotate(g1, id)
        g3 == getTranslate(g2, id)
    IN /\ g1.ret = <<1, 1, 1>> /\ g2.ret = <<0, 0, 0>> /\ g3.ret = <<0, 0, 0>>
       /\ getScale(g3, id).ret = <<1, 1, 1>>
       /\ getTranslate(S, id).ret = <<0, 0, 0>> /\ getRotate(S, id).ret = <<0, 0, 0>>
       /\ ~g3.crash /\ ~g3.err

\* the values the properties give the setters
XfValues == {<<2, 3, 4>>, <<0, 180, 360>>, <<1, 0, 0>>}

\* C10: for every model and registered object no transform setter was called on, getScale
\* returns [1,1,1], getRotate [0,0,0] and getTranslate [0,0,0]; after setScale,
\* setRotate or setTranslate(id, v) the getter returns v, and after addTranslate(id, d)
\* getTranslate returns what it returned before plus d
C10_DefaultsAndRoundTrip ==
    \A id \in KeySet(models) \cup KeySet(objects) :
        /\ ~FHas(transformable, id) => DefaultsGot(St, id)
        /\ \A v \in XfValues :
            /\ getScale(setScale(St, id, v), id).ret = v
            /\ getRotate(setRotate(St, id, v), id).ret = v
            /\ getTranslate(setTranslate(St, id, v), id).ret = v
            /\ getTranslate(addTranslate(St, id, v), id).ret
                   = [k \in 1..3 |-> getTranslate(St, id).ret[k] + v[k]]

\* setTranslate("m1#1", [1, 0, 0]) and addTranslate("m1#1", [1, 0, 0]) were called, and
\* getTranslate("m1#1") returned [2, 0, 0]
C10_Witness ==
    /\ last.op = "getTranslate" /\ ~last.err
    /\ last.ret = <<2, 0, 0>>
    /\ Has(objects, "m1#1")

\* C11: setScale(id, v) called twice in a row with the same v leaves the viewer as one
\* call does: the same scale, rotation and translation entries, the same transform chain
\* and the same value of getScale(id); the first call builds the chain when there is
\* none, the second one finds it and builds nothing
C11_SetScaleIdempotent ==
    \A id \in KeySet(models) \cup KeySet(objects) :
        \A v \in XfValues :
            LET s1 == setScale(St, id, v)
                s2 == setScale(s1, id, v)
            IN /\ s2 = s1
               /\ StackOf(s2, id) = StackOf(s1, id)
               /\ getScale(s2, id).ret = v /\ getScale(s1, id).ret = v
               /\ FHas(s1.transformable, id)
               /\ Materialize(s1, s1.scales, id).s = s1
               /\ ~s2.crash /\ ~s2.err

\* setScale([2, 2, 2]) was called on the model m1 and on its object m1#1, whose chain
\* had been built before and holds a rotation
C11_Witness ==
    /\ last.op = "setScale"
    /\ FHas(scales, "m1#1") /\ FGet(scales, "m1#1") = <<2, 2, 2>>
    /\ FHas(scales, "m1") /\ FGet(scales, "m1") = <<2, 2, 2>>
    /\ FHas(eulerAngles, "m1#1")

RECURSIVE RestoreCompleted(_, _)
\* the restore of bookmark that setBookmark left in S, after each load it waits for has
\* completed with success
RestoreCompleted(S, bookmark) ==
    IF S.crash \/ S.ret = Completed THEN S
    ELSE RestoreCompleted(
             modelLoaded(onLoaded(S, [id |-> bookmark.models[S.ret].id,
                                      src |-> bookmark.models[S.ret].src, inst |-> Live]),
                         bookmark, S.ret),
             bookmark)

\* the viewer after setBookmark(getBookmark()) has completed
RoundTrip(S) == RestoreCompleted(setBookmark(S, getBookmark(S)), getBookmark(S))

\* C12: in every state with at least one loaded model, after setBookmark(getBookmark())
\* has completed, getScale, getTranslate and getRotate return for every model and every
\* object what they returned before, also for a scale, translation or rotation that
\* differs from the default in its x, its y or its z component only
C12_RoundTripTransforms ==
    (restore.phase # "loading" /\ \E m \in ModelIds : LoadedModel(St, m)) =>
        /\ ~RoundTrip(St).crash
        /\ \A id \in KeySet(models) \cup KeySet(objects) :
               Got(RoundTrip(St), id) = Got(St, id)

\* C13: after setBookmark(getBookmark()) has completed, every object that was hidden is
\* hidden, every object that was visible is visible, and getOpacity returns for every
\* object what it returned before
C13_RoundTripVisibilityOpacity ==
    restore.phase # "loading" =>
        /\ ~RoundTrip(St).crash
        /\ \A o \in KeySet(objects) :
               /\ Has(RoundTrip(St).objects, o)
               /\ Entity(RoundTrip(St), o).visible = Entity(St, o).visible
               /\ getOpacity(RoundTrip(St), o).ret = getOpacity(St, o).ret

\* the restore of the document getBookmark() returned has completed: m1#1 is hidden and
\* has the opacity 0.5 the document gives it, m2#1 is visible
C13_Witness ==
    /\ restore.phase = "done" /\ last.op = "loaded"
    /\ restore.bookmark # Document
    /\ \E i \in 1..Len(restore.bookmark.objects) :
           /\ restore.bookmark.objects[i].id = "m1#1"
           /\ ~restore.bookmark.objects[i].visible
           /\ restore.bookmark.objects[i].opacity = 50
    /\ Has(objects, "m1#1") /\ ~Entity(St, "m1#1").visible /\ Entity(St, "m1#1").opacity = 50
    /\ Has(objects, "m2#1") /\ Entity(St, "m2#1").visible

\* C14: after setBookmark(getBookmark()) has completed, getColor returns for every
\* object, also for one whose colour setColor has changed, the colour it returned before
C14_RoundTripColor ==
    restore.phase # "loading" =>
        \A o \in KeySet(objects) : getColor(RoundTrip(St), o).ret = getColor(St, o).ret

\* C15: after setBookmark(getBookmark()) has completed, getEye, getLook and getUp return
\* the vectors they returned before, when the bookmark has models and when it has none;
\* and a completed restore of a document with models leaves the camera at the eye, look
\* and up of the document
C15_RoundTripCamera ==
    /\ restore.phase # "loading" =>
        /\ ~RoundTrip(St).crash
        /\ getEye(RoundTrip(St)).ret = getEye(St).ret
        /\ getLook(RoundTrip(St)).ret = getLook(St).ret
        /\ getUp(RoundTrip(St)).ret = getUp(St).ret
    /\ (restore.phase = "done" /\ Len(restore.bookmark.models) > 0) =>
        /\ getEye(St).ret = restore.bookmark.eye
        /\ getLook(St).ret = restore.bookmark.look
        /\ getUp(St).ret = restore.bookmark.up

\* the restore of a document getBookmark() returned, with a model and with the up vector
\* that setUp had set, has completed
C15_Witness ==
    /\ restore.phase = "done" /\ last.op = "loaded"
    /\ restore.bookmark # Document
    /\ Len(restore.bookmark.models) > 0
    /\ restore.bookmark.eye = <<0, 0, 10>> /\ restore.bookmark.up = <<0, 0, 1>>
    /\ view = [eye |-> <<0, 0, 10>>, look |-> <<0, 0, 0>>, up |-> <<0, 0, 1>>]

\* C16: after the restore of a document has completed, an object whose entry has
\* clippable=false is unclippable, one whose entry has pickable=false is unpickable and one
\* whose entry has outlined=true is outlined; so after setBookmark(getBookmark()) has
\* completed, an object that was unclippable, unpickable or outlined before still is
C16_OverridesAsWritten ==
    /\ restore.phase = "done" =>
        \A i \in 1..Len(restore.bookmark.objects) :
            LET os == restore.bookmark.objects[i] IN
            Has(objects, os.id) =>
                /\ os.clippable = <<FALSE>> => ~Entity(St, os.id).clippable
                /\ os.pickable = <<FALSE>> => ~Entity(St, os.id).pickable
                /\ os.outlined => Entity(St, os.id).outlined
    /\ restore.phase # "loading" =>
        \A o \in KeySet(objects) :
            /\ ~Entity(St, o).clippable => ~Entity(RoundTrip(St), o).clippable
            /\ ~Entity(St, o).pickable => ~Entity(RoundTrip(St), o).pickable
            /\ Entity(St, o).outlined => Entity(RoundTrip(St), o).outlined

\* C17: after setBookmark(getBookmark()) has completed, getClips returns the IDs it
\* returned before, and every clip has the position, the direction and the active flag it
\* had, and its helper is shown or hidden as it was, with a model loaded or with none
C17_RoundTripClips ==
    restore.phase # "loading" =>
        /\ getClips(RoundTrip(St)) = getClips(St)
        /\ \A id \in KeySet(clips) :
               /\ Get(RoundTrip(St).clips, id) = Get(clips, id)
               /\ FGet(RoundTrip(St).clipHelpers, id).visible = FGet(clipHelpers, id).visible

\* the loads in flight of model instances that are registered: after the clear() of
\* setBookmark these are the loads the restore has issued
LiveLoads(S) == {l \in S.loading : l.inst = Live}

\* C18: while setBookmark waits for the load of models[i] of its document, no other load it
\* issued is in flight and the registered models are models[1..i], in the order of the
\* document: the load of models[i+1] is issued by the step in which the load of models[i]
\* signals its completion or its failure; when the restore has completed, no load is in
\* flight
C18_OneLoadAtATime ==
    /\ restore.phase = "loading" =>
        LET ms == restore.bookmark.models
            i == restore.waiting
        IN /\ i \in 1..Len(ms)
           /\ LiveLoads(St) \subseteq {[id |-> ms[i].id, src |-> ms[i].src, inst |-> Live]}
           /\ getModels(St) = [j \in 1..i |-> ms[j].id]
    /\ restore.phase = "done" =>
        /\ LiveLoads(St) = {}
        /\ getModels(St) = [j \in 1..Len(restore.bookmark.models) |-> restore.bookmark.models[j].id]

\* the restore waits for the load of the second model of its document, which is in
\* flight; the load of the first model has completed
C18_Witness ==
    /\ restore.phase = "loading" /\ restore.waiting = 2
    /\ last.op = "loaded"
    /\ LoadedModel(St, "m1")
    /\ [id |-> "m2", src |-> "c", inst |-> Live] \in loading

\* from S to R nothing was applied: there is no clip and no annotation, the camera is as
\* it was, every transform entry of an object is as it was or is gone, and every object is
\* as its model was loaded or as it was
NothingApplied(S, R) ==
    /\ R.clips = <<>> /\ R.annotations = <<>>
    /\ R.view = S.view
    /\ \A o \in ObjectIds :
        /\ EntryOf(R.scales, o) \in {EntryOf(S.scales, o), <<>>}
        /\ EntryOf(R.rotations, o) \in {EntryOf(S.rotations, o), <<>>}
        /\ EntryOf(R.translations, o) \in {EntryOf(S.translations, o), <<>>}
        /\ EntryOf(R.eulerAngles, o) \in {EntryOf(S.eulerAngles, o), <<>>}
    /\ \A o \in KeySet(R.objects) :
        \/ [Entity(R, o) EXCEPT !.type = Undef] = NewEntity(Undef)
        \/ Has(S.objects, o) /\ Get(S.objects, o) = Get(R.objects, o) /\ Entity(R, o) = Entity(S, o)

\* C19: a step of setBookmark after which it still waits for the load of a model of its
\* document applies no object-level override (transform, visibility, opacity, outline,
\* clippable, pickable), creates no clip and no annotation and does not set the camera:
\* these are left to the step in which the load of the last model signals
C19_NothingBeforeLastLoad ==
    [][restore'.phase = "loading" => NothingApplied(St, St')]_vars

\* the restore of Document has completed with the completion of the load of its last
\* model: the object m1#1 is hidden, the clip c1 exists and the camera is at the eye of
\* the document
C19_Witness ==
    /\ restore.phase = "done" /\ restore.bookmark = Document
    /\ last.op = "loaded"
    /\ Has(objects, "m1#1") /\ ~Entity(St, "m1#1").visible
    /\ Has(clips, "c1") /\ Has(annotations, "a1")
    /\ view.eye = <<5, 5, 5>>

\* nothing is registered: no model, object, annotation, clip or light, no object in a type
\* bucket, and no transform entry
NothingRegistered(S) ==
    /\ S.models = <<>> /\ S.objects = <<>>
    /\ S.annotations = <<>> /\ S.clips = <<>> /\ S.lights = <<>>
    /\ \A type \in DOMAIN S.types : Len(FGet(S.types, type)) = 0
    /\ DOMAIN S.scales = {} /\ DOMAIN S.rotations = {} /\ DOMAIN S.translations = {}
    /\ DOMAIN S.eulerAngles = {}

\* C20: in every state, after the clear() that setBookmark starts with and before it
\* issues a load, no model, object, annotation, clip or light is registered, no type bucket
\* holds an object and no transform entry exists
C20_ClearedBeforeLoads ==
    /\ ~clear(St).crash
    /\ NothingRegistered(clear(St))

\* the IDs of the lights defaultLights() creates, in the order it creates them
DefaultLightIds == <<"light0", "light1", "light2", "light3">>

\* documents with no models: what getBookmark() returns with its models left out, and
\* Document with its models left out
NoModelDocuments(S) ==
    {[getBookmark(S) EXCEPT !.models = <<>>], [Document EXCEPT !.models = <<>>]}

\* C21: setBookmark of a document with no models returns with ok called, with the lights
\* light0..light3 as defaultLights() creates them and no others, and with no load in
\* flight of a registered model; a restore of such a document is completed by the step
\* that called setBookmark
C21_NoModelsDefaultLights ==
    /\ restore.phase # "loading" =>
        \A bookmark \in NoModelDocuments(St) :
            /\ ~setBookmark(St, bookmark).crash
            /\ setBookmark(St, bookmark).ret = Completed
            /\ Keys(setBookmark(St, bookmark).lights) = DefaultLightIds
            /\ setBookmark(St, bookmark).lights = defaultLights(NewViewer(FALSE)).lights
            /\ LiveLoads(setBookmark(St, bookmark)) = {}
            /\ setBookmark(St, bookmark).models = <<>>
    /\ (restore.phase # "idle" /\ Len(restore.bookmark.models) = 0) =>
        /\ restore.phase = "done" /\ last.op = "setBookmark"
        /\ Keys(lights) = DefaultLightIds
        /\ loading = {}

\* setBookmark of the document getBookmark() returned for a viewer with a clip and no
\* model has returned: ok has been called, the lights are light0..light3
C21_Witness ==
    /\ restore.phase = "done" /\ last.op = "setBookmark"
    /\ Len(restore.bookmark.models) = 0
    /\ Len(restore.bookmark.clips) > 0
    /\ Keys(lights) = DefaultLightIds

\* C22: when every load a restore waits for signals in the end its completion or its
\* failure, a restore that waits for a load calls ok in the end, also when loads fail
C22_RestoreTerminates == (restore.phase = "loading") ~> (restore.phase = "done")

\* C23: when the restore of a document with models has completed, the lights are
\* light0..light3, for a document without a lights entry and for one with a lights entry,
\* as getBookmark() writes it for a viewer with lights
C23_DefaultLightsAfterRestore ==
    (restore.phase = "done" /\ Len(restore.bookmark.models) > 0) =>
        Keys(lights) = DefaultLightIds

\* the entry of id in map differs from default in some component
Differs(map, id, default) == FHas(map, id) /\ FGet(map, id) # default

\* the entry state, of a model or an object, has its translate, scale and rotate fields
\* exactly when the translation, scale and Euler angles of id differ from the defaults
TransformsDiffed(S, state) ==
    /\ state.translate # UndefVec <=> Differs(S.translations, state.id, DefaultTranslate)
    /\ state.scale # UndefVec <=> Differs(S.scales, state.id, DefaultScale)
    /\ state.rotate # UndefVec <=> Differs(S.eulerAngles, state.id, DefaultAngles)

\* every attribute of the object o that getBookmark looks at has its default
AtDefaults(S, o) ==
    /\ ~Differs(S.translations, o, DefaultTranslate)
    /\ ~Differs(S.scales, o, DefaultScale)
    /\ ~Differs(S.eulerAngles, o, DefaultAngles)
    /\ [Entity(S, o) EXCEPT !.type = Undef, !.color = White] = NewEntity(Undef)

\* C24: in the document getBookmark() returns, the entry of a model and the entry of an
\* object has a translate field exactly when the translation differs from [0,0,0] in some
\* component, a scale field exactly when the scale differs from [1,1,1] in some component,
\* and a rotate field exactly when the Euler angles differ from [0,0,0] in some component;
\* an object with every attribute at its default has no entry
C24_DiffAgainstDefaults ==
    /\ \A i \in 1..Len(getBookmark(St).models) :
           TransformsDiffed(St, getBookmark(St).models[i])
    /\ \A o \in KeySet(objects) : TransformsDiffed(St, objectState(St, o))
    /\ \A i \in 1..Len(getBookmark(St).objects) :
           ~AtDefaults(St, getBookmark(St).objects[i].id)

\* targets of which no entry contributes a box: the empty list, an ID that denotes
\* nothing, and lists of such IDs
EmptyTargets ==
    {ListTarget(<<>>), IdTarget("zz"), ListTarget(<<IdEntry("zz")>>),
     ListTarget(<<IdEntry("zz"), IdEntry("yy")>>)}

\* C25: for the empty list, for an ID that denotes nothing and for a list of such IDs,
\* getAABB throws nothing and returns the boundary of the scene
C25_EmptyTargetSceneBox ==
    \A target \in EmptyTargets :
        /\ ~getAABB(St, target).crash
        /\ getAABB(St, target).ret = [kind |-> "aabb", aabb |-> SceneAABB(St)]

\* the lists that hold a box and the ID of an object, model or type
MixedLists ==
    {list \in AABBLists :
        /\ \E i \in 1..Len(list) : ~IsString(list[i])
        /\ \E i \in 1..Len(list) : IsString(list[i])
        /\ \A i \in 1..Len(list) : list[i].id \notin {"m1", "light1"}}

RECURSIVE BoundaryOf(_, _, _, _)
\* the smallest box that holds acc, the boxes among list[i..] and the boxes of the
\* entities the IDs among list[i..] resolve to
BoundaryOf(S, list, i, acc) ==
    IF i > Len(list) THEN acc
    ELSE BoundaryOf(S, list, i + 1,
                    IF IsString(list[i]) THEN UnionOf(acc, getObjects(S, list[i].id), 1)
                    ELSE Union(acc, list[i].box))

\* C26: for a list of IDs and boxes, getAABB returns the smallest box that holds every
\* box of the list and the box of every entity an ID of the list resolves to, wherever
\* in the list the boxes stand
C26_MixedListBoundary ==
    \A list \in MixedLists :
        /\ ~getAABB(St, ListTarget(list)).crash
        /\ getAABB(St, ListTarget(list)).ret =
               [kind |-> "aabb", aabb |-> BoundaryOf(St, list, 1, Collapsed)]

\* C27: destroy(id) with a string that is the ID of no model, light, clip or annotation
\* (an ID that denotes nothing, the ID of a model that has been destroyed, the ID of an
\* object) throws nothing and leaves every registry as it was
C27_DestroyUnknownHarmless ==
    \A id \in {Unknown} \cup ModelIds \cup ObjectIds :
        (~Has(models, id) /\ ~Has(lights, id) /\ ~Has(clips, id) /\ ~Has(annotations, id)) =>
            /\ ~destroy(St, id).crash
            /\ NothingChanged(St, [destroy(St, id) EXCEPT !.crash = FALSE])

\* the light id of R is the light id of S with the field set to v when its type is one
\* of kinds, and is the light id of S otherwise
SetWhereCompatible(S, R, id, field, v, kinds) ==
    Get(R.lights, id) = IF Get(S.lights, id).type \in kinds
                        THEN [Get(S.lights, id) EXCEPT ![field] = v]
                        ELSE Get(S.lights, id)

\* apart from the lights and the error logged, R is S
OnlyLights(S, R) == [R EXCEPT !.lights = S.lights, !.err = S.err] = S

\* C28: setPos of a light that is no point light, setDir of a light that is no
\* directional light and setSpace of an ambient light change nothing, the light
\* included; the same calls with a list of IDs set the position, direction or space of the
\* lights of the list that have the attribute, and change no other light and nothing else
C28_LightSettersRespectType ==
    /\ \A id \in KeySet(lights) :
        /\ Get(lights, id).type # "point" => setPos(St, id, <<4, 5, 6>>) = St
        /\ Get(lights, id).type # "dir" => setDir(St, id, <<0, 10, 0>>) = St
        /\ Get(lights, id).type = "ambient" =>
               NothingChanged(St, setSpace(St, id, "world"))
    /\ OnlyLights(St, setPosEach(St, LightList, 1, <<1, 2, 3>>))
    /\ OnlyLights(St, setDirEach(St, LightList, 1, <<10, 0, 0>>))
    /\ OnlyLights(St, setSpaceEach(St, LightList, 1, "world"))
    /\ \A id \in KeySet(lights) :
        /\ SetWhereCompatible(St, setPosEach(St, LightList, 1, <<1, 2, 3>>), id, "pos",
                              <<1, 2, 3>>, IF id \in SeqToSet(LightList) THEN {"point"} ELSE {})
        /\ SetWhereCompatible(St, setDirEach(St, LightList, 1, <<10, 0, 0>>), id, "dir",
                              <<10, 0, 0>>, IF id \in SeqToSet(LightList) THEN {"dir"} ELSE {})
        /\ SetWhereCompatible(St, setSpaceEach(St, LightList, 1, "world"), id, "space",
                              "world", IF id \in SeqToSet(LightList) THEN {"dir", "point"} ELSE {})

\* setPos has been called with the list: the point light p1 has the position given, the
\* ambient light and the directional lights are as defaultLights() created them
C28_Witness ==
    /\ last.op = "setPos"
    /\ Has(lights, "p1") /\ Get(lights, "p1").pos = <<1, 2, 3>>
    /\ Get(lights, "light0") = Get(defaultLights(NewViewer(FALSE)).lights, "light0")
    /\ Get(lights, "light1").pos = UndefVec

\* C29: clear() throws nothing; when it has returned there is no model, no object, no
\* annotation and no clip, the lights are light0..light3 as defaultLights() creates them,
\* and the eye, look and up of the camera are what they were
C29_ClearResetsLights ==
    /\ ~clear(St).crash
    /\ clear(St).models = <<>> /\ clear(St).objects = <<>>
    /\ clear(St).annotations = <<>> /\ clear(St).clips = <<>>
    /\ Keys(clear(St).lights) = DefaultLightIds
    /\ clear(St).lights = defaultLights(NewViewer(FALSE)).lights
    /\ clear(St).view = view

\* in R the model id has finished loading from src and its objects are registered
FinishedLoading(R, id, src) ==
    /\ LoadedModel(R, id)
    /\ FGet(R.modelSrcs, id) = src
    /\ Get(R.models, id).entities = [j \in 1..Len(SrcNodes(src)) |-> ObjId(id, SrcNodes(src)[j].node)]
    /\ SeqToSet(Get(R.models, id).entities) \subseteq KeySet(R.objects)

\* C30: whenever loadModel(id, src, ok) or the completion of a load calls ok with the ID of
\* a model, the model has finished loading and its objects are registered; also when
\* loadModel is called with the ID and the source of a model whose load is in flight
C30_OkWhenLoaded ==
    /\ \A in \in LoadInputs :
           ~loadIssued(St, in[1], in[2]) =>
               FinishedLoading(loadModel(St, in[1], in[2]), in[1], in[2])
    /\ \A l \in loading : FinishedLoading(onLoaded(St, l), l.id, l.src)

\* the objects of the model id loaded from src are registered in objects, objectModels
\* and the bucket of their type, in the registries seen
RegisteredIn(seen, id, src) ==
    \A j \in 1..Len(SrcNodes(src)) :
        LET o == ObjId(id, SrcNodes(src)[j].node)
            type == TypeOrDefault(SrcNodes(src)[j].type)
        IN /\ \E k \in 1..Len(seen.objects) : seen.objects[k] = o
           /\ o \in seen.objectModels
           /\ type \in DOMAIN seen.types
           /\ \E k \in 1..Len(seen.types[type]) : seen.types[type][k] = o

\* C31: with cfg.loadedModel configured, the completion of a load does not call ok: it
\* calls loadedModel with the ID and the source of the model, after the objects of the
\* model have been registered in objects, objectModels and types, and ok(id) is called
\* only by the continuation given to that call of loadedModel
C31_OkAfterLoadedModel ==
    [][/\ (cfgLoadedModel /\ last'.op = "loaded") =>
              \A i \in 1..Len(last'.calls) : last'.calls[i].fn # "ok"
       /\ \A i \in 1..Len(last'.calls) :
              (last'.calls[i].fn = "loadedModel") =>
                  /\ last'.op = "loaded"
                  /\ RegisteredIn(last'.calls[i].seen, last'.calls[i].id, last'.calls[i].src)
       /\ \A c \in continuations' \ continuations :
              \E i \in 1..Len(last'.calls) :
                  /\ last'.calls[i].fn = "loadedModel"
                  /\ last'.calls[i].id = c.id /\ last'.calls[i].src = c.src
       /\ (cfgLoadedModel /\ last'.op = "continue") =>
              \E c \in continuations \ continuations' :
                  /\ Len(last'.calls) = 1
                  /\ last'.calls[1].fn = "ok" /\ last'.calls[1].id = c.id]_vars

\* a continuation given to loadedModel has called ok with the ID of a loaded model
C31_Witness ==
    /\ cfgLoadedModel /\ last.op = "continue"
    /\ last.calls # <<>> /\ last.calls[1].fn = "ok"
    /\ LoadedModel(St, last.calls[1].id)

\* the calls fire(event, value) makes in S
Fired(S, event, value) == fire(S, event, value).calls

\* C32: fire(event, value) calls the callbacks subscribed with on(event, ...), once for
\* each subscription, in the order of the subscriptions and with value, and no callback
\* subscribed to another event: a new viewer has no subscription, and a call on(e, f)
\* adds the call f(value) at the end of the calls fire(e, value) makes and leaves the
\* calls of fire for every other event as they were; fire for an event with no
\* subscription calls nothing, and no fire changes the viewer
C32_FireCallsSubscribers ==
    /\ \A event \in Events, value \in Values :
           /\ Fired(NewViewer(FALSE), event, value) = <<>>
           /\ [fire(St, event, value) EXCEPT !.calls = <<>>] = St
           /\ ~Has(eventSubs, event) => fire(St, event, value) = St
           /\ \A i \in 1..Len(Fired(St, event, value)) :
                  Fired(St, event, value)[i].value = value
    /\ \A e \in Events, f \in Callbacks, event \in Events, value \in Values :
           Fired(on(St, e, f), event, value) =
               IF event = e
               THEN Append(Fired(St, event, value), [fn |-> f, value |-> value])
               ELSE Fired(St, event, value)

\* fire has called two callbacks in the order of their subscriptions, g before f, while
\* another event has a subscription too
C32_Witness ==
    /\ last.op = "fire" /\ Len(last.calls) = 2
    /\ last.calls[1].fn = "g" /\ last.calls[2].fn = "f"
    /\ Len(eventSubs) = 2

\* the lists of IDs of registered objects, of length 1 to MaxList
ObjectLists(S) == UNION {[1..n -> KeySet(S.objects)] : n \in 1..MaxList}

\* C33: hide(list), for a list of IDs of registered objects, makes the listed objects
\* invisible and leaves the visibility of every other object as it was; nothing else in
\* the viewer changes, so getObjects(m) returns for every model what it returned before,
\* which for a loaded model is all the objects of the model, the hidden ones included
C33_HideListedObjectsOnly ==
    \A ids \in ObjectLists(St) :
        LET R == hideEach(St, ids) IN
        /\ ~R.err /\ ~R.crash
        /\ \A o \in KeySet(objects) :
               Entity(R, o).visible = IF o \in SeqToSet(ids) THEN FALSE ELSE Entity(St, o).visible
        /\ \A o \in KeySet(objects) :
               [Entity(R, o) EXCEPT !.visible = TRUE] = [Entity(St, o) EXCEPT !.visible = TRUE]
        /\ [R EXCEPT !.entState = entState] = St
        /\ \A m \in ModelIds :
               /\ getObjects(R, m) = getObjects(St, m)
               /\ LoadedModel(St, m) =>
                      SeqToSet(getObjects(R, m)) = SeqToSet(Get(models, m).entities)

\* hide(list) has hidden m1#1: m1#2 is visible and getObjects("m1") returns both
C33_Witness ==
    /\ last.op = "hide" /\ LoadedModel(St, "m1")
    /\ getObjects(St, "m1") = <<"m1#1", "m1#2">>
    /\ ~Entity(St, "m1#1").visible /\ Entity(St, "m1#2").visible

\* each list of the scene is that of its registry, unless the flag of the kind is set
ListsBuilt(S) ==
    /\ S.clipsDirty \/ S.sceneClips = Keys(S.clips)
    /\ S.lightsDirty \/ S.sceneLights = Keys(S.lights)

\* C34: while the viewer has not been destroyed by destroy(), for clips and for lights
\* either the flag of the kind is set or the list of the scene is that of the registry;
\* no call but a tick writes the lists; a tick rebuilds each list whose flag is set from
\* the registry as it is then and clears both flags; a tick finding a flag clear leaves
\* that list as it is
C34_DirtyFlagRebuild ==
    /\ ticking => ListsBuilt(St)
    /\ last.op # "tick" =>
           \A S \in {createClip(St, "c1", ClipCfg),
                     createLight(St, "p1", LightCfg("dir", <<0, 0, -10>>, White)),
                     destroy(St, "c1"), destroy(St, "p1"), destroy(St, "light1")} :
               /\ S.sceneClips = sceneClips /\ S.sceneLights = sceneLights
               /\ S.clips # clips => S.clipsDirty
               /\ S.lights # lights => S.lightsDirty
    /\ onTick(St).sceneClips = (IF clipsDirty THEN Keys(clips) ELSE sceneClips)
    /\ onTick(St).sceneLights = (IF lightsDirty THEN Keys(lights) ELSE sceneLights)
    /\ ~onTick(St).clipsDirty /\ ~onTick(St).lightsDirty
    /\ [onTick(St) EXCEPT !.sceneClips = sceneClips, !.sceneLights = sceneLights,
                          !.clipsDirty = clipsDirty, !.lightsDirty = lightsDirty] = St
    /\ onTick(onTick(St)) = onTick(St)

\* C34 as claimed: in every reachable state, for clips and for lights, either the flag of
\* the kind is set or the list of the scene is that of the registry
C34_DirtyFlagEveryState == ListsBuilt(St)

\* a tick has rebuilt both lists after a clip and a light were created and a light was
\* destroyed since the tick before
C34_Witness ==
    /\ last.op = "tick" /\ ticking
    /\ sceneClips = <<"c1">>
    /\ sceneLights = <<"light0", "light2", "light3", "p1">>

\* C35: every registered object is in the bucket of the type getType returns for it and
\* in no other bucket, and every ID in a bucket is that of a registered object
C35_TypeIndex ==
    /\ \A o \in KeySet(objects) :
           /\ getType(St, o) \in DOMAIN types
           /\ \A t \in DOMAIN types : Contains(types[t], o) <=> t = getType(St, o)
    /\ \A t \in DOMAIN types : SeqToSet(types[t]) \subseteq KeySet(objects)

\* C36: the model that owns a registered object is the model registered under its ID, and
\* the completion of the load of a model that was destroyed or replaced while loading
\* registers no object, no owner and no bucket entry
C36_OwnerIsRegisteredModel ==
    /\ \A o \in KeySet(objects) :
           /\ FHas(objectModels, o) /\ FGet(objectModels, o) = Live
           /\ Get(objects, o) = Live
           /\ Has(models, ModelOfId(o))
    /\ \A l \in loading :
           l.inst = Stale =>
               /\ onLoaded(St, l).objects = objects
               /\ onLoaded(St, l).objectModels = objectModels
               /\ onLoaded(St, l).types = types

\* the annotation a is in the index objectAnnotations under the object o
IndexedUnder(S, a, o) == FHas(S.objectAnnotations, o) /\ Contains(FGet(S.objectAnnotations, o), a)

\* C37: an annotation is in the index objectAnnotations under the object o exactly when
\* it is pinned to o, and destroy of an annotation throws nothing and removes the
\* annotation from annotations and from the index
C37_AnnotationIndex ==
    /\ \A a \in KeySet(annotations), o \in ObjectIds :
           IndexedUnder(St, a, o) <=> Get(annotations, a).entity = o
    /\ \A a \in KeySet(annotations) :
           /\ ~destroy(St, a).crash
           /\ ~Has(destroy(St, a).annotations, a)
           /\ \A o \in ObjectIds : ~IndexedUnder(destroy(St, a), a, o)

\* C38: for every registered annotation, getAnnotationObject returns the ID of a
\* registered object
C38_PinnedToRegisteredObject ==
    \A a \in KeySet(annotations) :
        /\ ~getAnnotationObject(St, a).err
        /\ Has(objects, getAnnotationObject(St, a).ret)

\* C39: after destroy() getModels, getObjects, getTypes, getLights, getClips and
\* getAnnotations return empty lists, getSrc logs "Model not found" and returns null for
\* every model there was, and the transform maps hold no entry
C39_DestroyEmptiesViewer ==
    LET R == destroy(St, Undef) IN
    /\ ~R.crash
    /\ getModels(R) = <<>> /\ getObjects(R, Undef) = <<>> /\ getTypes(R) = {}
    /\ getLights(R) = <<>> /\ getClips(R) = <<>> /\ getAnnotations(R) = <<>>
    /\ \A m \in KeySet(models) : getSrc(R, m).err /\ getSrc(R, m).ret = Undef
    /\ R.scales = EmptyF /\ R.rotations = EmptyF /\ R.translations = EmptyF
    /\ R.eulerAngles = EmptyF /\ R.transformable = EmptyF

\* the calls of unloadedModel among calls
Unloaded(calls) == SelectSeq(calls, LAMBDA c : c.fn = "unloadedModel")

\* the IDs unloadedModel was called with, in the order of the calls
UnloadedIds(calls) == [i \in 1..Len(Unloaded(calls)) |-> Unloaded(calls)[i].id]

\* every call of unloadedModel among calls found neither the model it was called for nor
\* an object that model owned in S
AfterRemoval(S, calls) ==
    \A i \in 1..Len(Unloaded(calls)) :
        LET c == Unloaded(calls)[i] IN
        /\ c.src = Undef
        /\ ~Contains(c.seen.models, c.id)
        /\ SeqToSet(c.seen.objects) \cap OwnedBy(S, c.id) = {}
        /\ c.seen.objectModels \cap OwnedBy(S, c.id) = {}

\* C40: with cfg.unloadedModel configured, destroy(id) of a model, clear(), the clearing
\* step of setBookmark and loadModel that replaces a model call unloadedModel(id) once
\* for each model they remove, after the model and the objects it owns have been removed
\* from the registries; loadModel with the ID and the source of a registered model, and
\* destroy with an ID that denotes no model, do not call it
C40_UnloadedModelOncePerRemoval ==
    /\ cfgUnloadedModel
    /\ \A m \in KeySet(models) :
           /\ UnloadedIds(destroy(St, m).calls) = <<m>>
           /\ AfterRemoval(St, destroy(St, m).calls)
           /\ \A src \in Srcs :
                  /\ UnloadedIds(loadModel(St, m, src).calls) =
                         IF src = Get(models, m).src THEN <<>> ELSE <<m>>
                  /\ AfterRemoval(St, loadModel(St, m, src).calls)
    /\ UnloadedIds(clear(St).calls) = getModels(St)
    /\ AfterRemoval(St, clear(St).calls)
    /\ UnloadedIds(setBookmark(St, Document).calls) = getModels(St)
    /\ AfterRemoval(St, setBookmark(St, Document).calls)
    /\ \A id \in (ModelIds \cup ObjectIds \cup {"light0", Unknown}) \ KeySet(models) :
           /\ Unloaded(destroy(St, id).calls) = <<>>
           /\ \A src \in Srcs : Unloaded(loadModel(St, id, src).calls) = <<>>
    /\ last.op \in {"destroy", "loadModel"} => AfterRemoval(St, last.calls)

\* destroy("m1") of the model m1 loaded from "b" has called unloadedModel("m1"), which
\* found the model m2 and its object and no object of m1
C40_Witness ==
    /\ last.op = "destroy" /\ UnloadedIds(last.calls) = <<"m1">>
    /\ last.calls[1].seen.models = <<"m2">> /\ last.calls[1].seen.objects = <<"m2#1">>
    /\ last.calls[1].seen.types = [DEFAULT |-> <<"m2#1">>, T |-> <<>>]
    /\ UnloadedIds(clear(St).calls) = <<"m2">>

====
